---- MODULE Spec2Model ----
(***************************************************************************)
(* Model of the pofh password-recovery backend: the JWT capability tokens  *)
(* (pofh/auth), the exponential rate limiter (pofh/api/limits.py), the SMS *)
(* nonce store and the workflow handlers (pofh/api).                       *)
(*                                                                         *)
(* Time is counted in whole seconds, as PyJWT does when it checks a token. *)
(* A string that may contain colons is a sequence of colon-free segments:  *)
(* 'foo:bar' is <<"foo", "bar">>, the empty string is <<"">> and Python's  *)
(* None is <<>>.                                                           *)
(*                                                                         *)
(* The third-party Flask-Limiter hook (10/minute) is outside the model; it *)
(* only adds further 429 answers in front of the handlers.                 *)
(*                                                                         *)
(* Spec serves the requests one at a time.  SpecRace runs the statements   *)
(* of exponential_ratelimit's wrapper in several workers at once, and      *)
(* SpecDecode applies jwt_decode to wire tokens of every shape.            *)
(***************************************************************************)
EXTENDS Integers, Sequences, FiniteSets, TLC

\* ---- bounds of the model ----
MaxTime == 5
MaxRequests == 3
MaxWorkers == 3
MaxClock == 3
MaxFrac == 1
MaxOffset == 3
MaxVersion == 1

\* ---- program constants ----
DEFAULT_EXP == 3
DEFAULT_NBF == 0
JWT_LEEWAY == 1
NONCE_DEFAULT_EXPIRE_MINUTES == 10
NS_SET_PASSWORD == <<"allow-set-password">>
NS_VERIFY_NONCE == <<"allow-verify-nonce">>
RATE_LIMIT_PREFIX == "rate-limit"
NONCE_PREFIX == "sms-nonce"

None == <<>>
EmptyStr == <<"">>

\* ---- the identity backend: MockClient, loaded with data in which every
\* answer of the backend occurs (bar may neither authenticate nor use SMS) ----
Users == {"foo", "bar"}
Passwords == {"hunter2", "fido5", "hunter3"}
ValidPasswords == {"hunter2", "fido5"}
Persons == {"1", "2", "3", "4"}
UsersOf(person) ==
    IF person = "1" THEN {"foo", "bar"}
    ELSE IF person = "2" THEN {"baz"}
    ELSE IF person = "3" THEN {"qux"} ELSE {}
MobilesOf(person) ==
    IF person = "1" THEN {"+4791000000"}
    ELSE IF person = "2" THEN {"+4720000002"} ELSE {}
\* get_preferred_mobile_number: the first number on record, None without one
PreferredMobileNumber(person) ==
    IF person = "1" THEN <<"+4791000000">>
    ELSE IF person = "2" THEN <<"+4720000002">> ELSE None
\* can_show_usernames: persons "2" and "3" are reserved from publication
CanShowUsernames(person) == person \notin {"2", "3"}
\* parse_number: None for what is no phone number; otherwise the number, in
\* which the spacing of the digits and what is written ahead of the number
\* play no part
ParseNumber(raw) ==
    IF raw = "x" THEN None
    ELSE IF raw \in {"+47 91000000", "tel:+4791000000"} THEN <<"+4791000000">>
    ELSE <<raw>>
\* a string as the parts between its colons
Segments(raw) == IF raw = "tel:+4791000000" THEN <<"tel", "+4791000000">> ELSE <<raw>>
CanAuthenticate(u) == u # "bar"
CanUseSmsService(u) == u = "foo"
CheckNewPassword(u, p) == p \in ValidPasswords
Nonces == {"n1", "n2"}
Clients == {"c1"}

\* ---- the subject claim: '<namespace>:<identity>' ----
OrEmpty(s) == IF s = None THEN EmptyStr ELSE s
OrNone(s) == IF s = EmptyStr THEN None ELSE s

\* JWTAuthToken.sub (getter)
Sub(namespace, identity) == OrEmpty(namespace) \o OrEmpty(identity)

\* JWTAuthToken.sub (setter): split on the first colon
SubNamespace(sub) == OrNone(<<Head(sub)>>)
SubIdentity(sub) == IF Len(sub) >= 2 THEN OrNone(Tail(sub)) ELSE None

\* ---- tokens ----
RequiredClaims == {"jti", "iat", "nbf", "exp", "sub"}

\* JWTAuthToken.new: the token object of a fresh token.  Its times are
\* whole seconds and frac parts of a second (of MaxFrac + 1 to the second)
\* past them; the payload carries whole seconds, so frac plays a part only
\* where a token object is compared with its decoded copy
New(jti, namespace, identity, issuer, t) ==
    [jti |-> jti, namespace |-> namespace, identity |-> identity, iss |-> issuer,
     iat |-> t, nbf |-> t + DEFAULT_NBF, exp |-> t + DEFAULT_EXP, frac |-> 0]
\* the handlers name no issuer
NewToken(jti, namespace, identity, t) == New(jti, namespace, identity, None, t)

\* variant: the subject is split at its last colon
FromPayloadLastColon(w) ==
    [jti |-> w.jti, namespace |-> OrNone(SubSeq(w.sub, 1, Len(w.sub) - 1)),
     identity |-> OrNone(<<w.sub[Len(w.sub)]>>), iss |-> w.iss,
     iat |-> w.iat, nbf |-> w.nbf, exp |-> w.exp, frac |-> 0]

\* variant: the renewed token is stamped as issued now
RenewReissued(tok, t) ==
    [tok EXCEPT !.iat = t, !.nbf = t + DEFAULT_NBF, !.exp = t + DEFAULT_EXP]

\* JWTAuthToken.renew: new nbf and exp, nothing else
Renew(tok, t) ==
    [tok EXCEPT !.nbf = t + DEFAULT_NBF, !.exp = t + DEFAULT_EXP]

\* encode_token / jwt_encode / get_payload: the signed wire token; 'iss' is
\* in the payload only if the token has an issuer that is not empty
JwtEncode(tok, secret) ==
    [kind |-> "jwt", sig |-> secret,
     claims |-> RequiredClaims \cup (IF OrNone(tok.iss) = None THEN {} ELSE {"iss"}),
     jti |-> tok.jti, sub |-> Sub(tok.namespace, tok.identity),
     iss |-> OrNone(tok.iss),
     iat |-> tok.iat, nbf |-> tok.nbf, exp |-> tok.exp]

\* JWTAuthToken.from_payload
FromPayload(w) ==
    [jti |-> w.jti, namespace |-> SubNamespace(w.sub),
     identity |-> SubIdentity(w.sub), iss |-> w.iss,
     iat |-> w.iat, nbf |-> w.nbf, exp |-> w.exp, frac |-> 0]

\* jwt.decode under JWT_OPTIONS, then from_payload.  verify_iat is on; PyJWT
\* releases differ in whether a future iat is rejected (iatStrict).  The
\* releases of the program's time accept a token up to and including
\* exp + leeway.
\* variant: a token is turned away from exp - leeway on
JwtDecodeOKStrictExp(w, secret, leeway, t, iatStrict) ==
    /\ w.kind = "jwt"
    /\ w.sig = secret
    /\ RequiredClaims \subseteq w.claims
    /\ w.exp > t - leeway
    /\ w.nbf <= t + leeway
    /\ (iatStrict => w.iat <= t + leeway)

JwtDecodeOK(w, secret, leeway, t, iatStrict) ==
    /\ w.kind = "jwt"
    /\ w.sig = secret
    /\ RequiredClaims \subseteq w.claims
    /\ w.exp >= t - leeway
    /\ w.nbf <= t + leeway
    /\ (iatStrict => w.iat <= t + leeway)

\* ---- the redis store: key -> [val, exp]; exp = -1 means no TTL ----
NoTTL == -1
StoreHas(s, k) == k \in DOMAIN s
StoreGet(s, k) == s[k].val
StoreIncr(s, k) ==
    IF k \in DOMAIN s THEN [s EXCEPT ![k].val = @ + 1]
    ELSE [x \in DOMAIN s \cup {k} |-> IF x = k THEN [val |-> 1, exp |-> NoTTL] ELSE s[x]]
StoreExpire(s, k, ttl, t) ==
    IF k \in DOMAIN s THEN [s EXCEPT ![k].exp = t + ttl] ELSE s
StoreSetex(s, k, ttl, v, t) ==
    [x \in DOMAIN s \cup {k} |-> IF x = k THEN [val |-> v, exp |-> t + ttl] ELSE s[x]]
StoreDelete(s, k) == [x \in DOMAIN s \ {k} |-> s[x]]
\* keys whose TTL has run out at time t are gone
StoreAt(s, t) ==
    [x \in {k \in DOMAIN s : s[k].exp = NoTTL \/ s[k].exp > t} |-> s[x]]

\* ---- exponential_ratelimit (one whole call of the wrapper) ----
RateLimitScope(action, client) == <<RATE_LIMIT_PREFIX, action, client>>

\* variant: the counter is never given a TTL
ExponentialRatelimitNoExpire(s, action, client, t) ==
    LET scope == RateLimitScope(action, client)
        fresh == ~StoreHas(s, scope)
    IN  [ok |-> fresh, store |-> StoreIncr(s, scope)]

\* variant: the TTL is the square of the counter after the increment
ExponentialRatelimitPostIncr(s, action, client, t) ==
    LET scope == RateLimitScope(action, client)
        fresh == ~StoreHas(s, scope)
        s1    == StoreIncr(s, scope)
        s2    == StoreExpire(s1, scope, StoreGet(s1, scope) * StoreGet(s1, scope), t)
    IN  [ok |-> fresh, store |-> s2]

\* variant: the wrapper counts but never denies
ExponentialRatelimitAdmitAll(s, action, client, t) ==
    LET scope == RateLimitScope(action, client)
        fresh == ~StoreHas(s, scope)
        state == IF fresh THEN 1 ELSE StoreGet(s, scope)
        s1    == StoreIncr(s, scope)
        s2    == StoreExpire(s1, scope, state * state, t)
    IN  [ok |-> TRUE, store |-> s2]

ExponentialRatelimit(s, action, client, t) ==
    LET scope == RateLimitScope(action, client)
        fresh == ~StoreHas(s, scope)
        state == IF fresh THEN 1 ELSE StoreGet(s, scope)
        s1    == StoreIncr(s, scope)
        s2    == StoreExpire(s1, scope, state * state, t)
    IN  [ok |-> fresh, store |-> s2]

\* ---- the nonce store ----
NonceName(identifier) == <<NONCE_PREFIX>> \o identifier
NonceExpireSeconds == NONCE_DEFAULT_EXPIRE_MINUTES * 60
\* variant: a nonce already stored for the identifier is kept
SaveNonceKeepOld(s, identifier, nonce, duration, t) ==
    IF StoreHas(s, NonceName(identifier)) THEN s
    ELSE StoreSetex(s, NonceName(identifier), duration, nonce, t)

SaveNonce(s, identifier, nonce, duration, t) ==
    StoreSetex(s, NonceName(identifier), duration, nonce, t)
CheckNonce(s, identifier, nonce) ==
    /\ nonce # ""
    /\ StoreHas(s, NonceName(identifier))
    /\ StoreGet(s, NonceName(identifier)) = nonce
ClearNonce(s, identifier) == StoreDelete(s, NonceName(identifier))

\* ---- the Authorization header ----
SECRET == "server-secret"
NoAuth == [kind |-> "none"]
BasicAuth == [kind |-> "basic"]
Garbage == [kind |-> "garbage"]

\* tokens signed with a key that is not the server's
Forged ==
    {[kind |-> "jwt", sig |-> "other-secret", claims |-> RequiredClaims,
      jti |-> 0, sub |-> Sub(ns, <<"foo">>), iss |-> None, iat |-> 0, nbf |-> 0,
      exp |-> MaxTime + DEFAULT_EXP] : ns \in {NS_SET_PASSWORD}}

VARIABLES
    now,        \* the clock, in seconds
    store,      \* the redis store: rate-limit counters and nonces
    passwd,     \* the identity backend: the current password of each user
    issued,     \* every signed token handed out so far
    origin,     \* per jti: the request that minted the token
    used,       \* <<jti, status>>: the answers /password gave to each accepted token
    last,       \* the request answered in the current second, if any, and its answer
    served,     \* how many requests have been answered
    calls,      \* per live rate-limit key: the calls made since it was absent
    pc,         \* rate-limiter race: where each worker is in the wrapper
    seen,       \* rate-limiter race: the value each worker read
    probe,      \* jwt_decode on its own: the input and the verdict
    noncelog,   \* the nonce store on its own: per identifier the last issue,
                \* and the last check_nonce call with its answer
    cycle,      \* encode and decode on their own: the token and its copy
    idm,        \* the Cerebrum client on its own: the call and its answer
    dispatch,   \* the SMS dispatcher on its own: a call in progress
    config,     \* init_app on its own: the configured offsets and a token
    cache       \* the Cerebrum client's cache on its own, one request after another

vars == <<now, store, passwd, issued, origin, used, last, served, calls, pc, seen, probe,
          noncelog, cycle, idm, dispatch, config, cache>>

\* ---- _check_for_jwt (before_request) ----
\* The except branch calls current_app.logger.debut, which does not exist: the
\* AttributeError leaves the request with a 500 before Forbidden is raised.
\* variant: a token that has changed a password is turned away
CheckForJwtSingleUse(auth, t, strict) ==
    IF auth.kind \in {"none", "basic"}
    THEN [raised |-> FALSE, present |-> FALSE, tok |-> NewToken(0, None, None, 0)]
    ELSE IF /\ JwtDecodeOK(auth, SECRET, JWT_LEEWAY, t, strict)
            /\ <<auth.jti, "204">> \notin used
         THEN [raised |-> FALSE, present |-> TRUE, tok |-> FromPayload(auth)]
         ELSE [raised |-> TRUE, present |-> FALSE, tok |-> NewToken(0, None, None, 0)]

CheckForJwt(auth, t, strict) ==
    IF auth.kind \in {"none", "basic"}
    THEN [raised |-> FALSE, present |-> FALSE, tok |-> NewToken(0, None, None, 0)]
    ELSE IF JwtDecodeOK(auth, SECRET, JWT_LEEWAY, t, strict)
         THEN [raised |-> FALSE, present |-> TRUE, tok |-> FromPayload(auth)]
         ELSE [raised |-> TRUE, present |-> FALSE, tok |-> NewToken(0, None, None, 0)]

\* ---- require_jwt ----
\* variant: the namespace is not looked at
RequireJwtAnyNamespace(g, namespaces) ==
    IF ~g.present THEN "401-challenge" ELSE "ok"

\* variant: a wrong namespace is answered with the challenge
RequireJwtUnauthorized(g, namespaces) ==
    IF ~g.present THEN "401-challenge"
    ELSE IF namespaces # {} /\ g.tok.namespace \notin namespaces
         THEN "401-challenge"
         ELSE "ok"

RequireJwt(g, namespaces) ==
    IF ~g.present THEN "401-challenge"
    ELSE IF namespaces # {} /\ g.tok.namespace \notin namespaces
         THEN "403-forbidden"
         ELSE "ok"

\* ---- the bodies of the route handlers ----
\* authenticate(): what the two backend calls return, and the answer
\* variant: the password is not verified
AuthenticateBodyNoVerify(username, password, pw) ==
    LET can == CanAuthenticate(username)
        ver == username \in Users /\ pw[username] = password
    IN  [can |-> can, ver |-> ver,
         status |-> IF ~can THEN "401-invalid-creds" ELSE "200"]

AuthenticateBody(username, password, pw) ==
    LET can == CanAuthenticate(username)
        ver == username \in Users /\ pw[username] = password
    IN  [can |-> can, ver |-> ver,
         status |-> IF ~can THEN "401-invalid-creds"
                    ELSE IF ~ver THEN "401-invalid-creds"
                    ELSE "200"]

\* change_password(): the username it acts on, and the answer
ChangePasswordBody(tok, password) ==
    LET username == tok.identity
    IN  [username |-> username,
         status |-> IF ~CheckNewPassword(username, password)
                    THEN "400-weak-password" ELSE "204"]

\* verify_code(): the answer, the username of the new token, the store after
VerifyCodeBody(s, tok, nonce) ==
    LET identifier == tok.identity
    IN  IF ~CheckNonce(s, identifier, nonce)
        THEN [status |-> "401-invalid-nonce", username |-> None, store |-> s]
        ELSE IF Len(identifier) # 2
        THEN [status |-> "500", username |-> None, store |-> s]
        ELSE [status |-> "200", username |-> <<identifier[1]>>, store |-> s]

\* variant: can_use_sms_service is not asked
IdentifyBodyNoEligibility(s, person, username, mobile, filterOK, sendOK, nonce, t) ==
    LET parsed     == ParseNumber(mobile)
        valid      == {ParseNumber(x) : x \in MobilesOf(person)}
        identifier == <<username>> \o Segments(mobile)
        saved      == SaveNonce(s, identifier, nonce, NonceExpireSeconds, t)
    IN  IF person \notin Persons \/ username \notin UsersOf(person)
        THEN [status |-> "400-not-found", identifier |-> None, store |-> s,
              asked |-> FALSE]
        ELSE IF parsed = None
        THEN [status |-> "400-invalid-mobile", identifier |-> None, store |-> s,
              asked |-> FALSE]
        ELSE IF parsed \notin valid
        THEN [status |-> "400-not-found", identifier |-> None, store |-> s,
              asked |-> FALSE]
        ELSE IF ~filterOK
        THEN [status |-> "400-invalid-mobile", identifier |-> None, store |-> s,
              asked |-> FALSE]
        ELSE IF ~sendOK
        THEN [status |-> "403-service-unavailable", identifier |-> None, store |-> saved,
              asked |-> FALSE]
        ELSE [status |-> "200", identifier |-> identifier, store |-> saved,
              asked |-> FALSE]

\* variant: can_use_sms_service is asked before the person, the username and
\* the mobile number are checked
IdentifyBodyEligibilityFirst(s, person, username, mobile, filterOK, sendOK, nonce, t) ==
    IF ~CanUseSmsService(username)
    THEN [status |-> "403-service-unavailable", identifier |-> None, store |-> s,
          asked |-> TRUE]
    ELSE [IdentifyBodyNoEligibility(s, person, username, mobile, filterOK, sendOK,
                                    nonce, t) EXCEPT !.asked = TRUE]

\* identify(): the answer, the identifier of the new token, the store after
IdentifyBody(s, person, username, mobile, filterOK, sendOK, nonce, t) ==
    LET parsed     == ParseNumber(mobile)
        valid      == {ParseNumber(x) : x \in MobilesOf(person)}
        identifier == <<username>> \o Segments(mobile)
        saved      == SaveNonce(s, identifier, nonce, NonceExpireSeconds, t)
    IN  IF person \notin Persons
        THEN [status |-> "400-not-found", identifier |-> None, store |-> s,
              asked |-> FALSE]
        ELSE IF username \notin UsersOf(person)
        THEN [status |-> "400-not-found", identifier |-> None, store |-> s,
              asked |-> FALSE]
        ELSE IF parsed = None
        THEN [status |-> "400-invalid-mobile", identifier |-> None, store |-> s,
              asked |-> FALSE]
        ELSE IF parsed \notin valid
        THEN [status |-> "400-not-found", identifier |-> None, store |-> s,
              asked |-> FALSE]
        ELSE IF ~CanUseSmsService(username)
        THEN [status |-> "403-service-unavailable", identifier |-> None, store |-> s,
              asked |-> TRUE]
        ELSE IF ~filterOK
        THEN [status |-> "400-invalid-mobile", identifier |-> None, store |-> s,
              asked |-> TRUE]
        ELSE IF ~sendOK
        THEN [status |-> "403-service-unavailable", identifier |-> None, store |-> saved,
              asked |-> TRUE]
        ELSE [status |-> "200", identifier |-> identifier, store |-> saved,
              asked |-> TRUE]

\* ---- requests ----
\* the namespaces each gated route hands to require_jwt ({}: any namespace)
Namespaces(route) ==
    IF route = "verify_code" THEN {NS_VERIFY_NONCE}
    ELSE IF route = "change_password" THEN {NS_SET_PASSWORD}
    ELSE {}
GatedRoutes == {"verify_code", "change_password", "renew_session_jwt"}
LimitedRoutes == {"authenticate", "identify", "verify_code"}

NoOrigin == [via |-> "none", username |-> "", can |-> FALSE, ver |-> FALSE,
             auth |-> NoAuth, accepted |-> FALSE, matched |-> FALSE, nonce |-> ""]
NoLast == [route |-> "none", client |-> "", auth |-> NoAuth, status |-> "none",
           reached |-> FALSE, passed |-> FALSE, ran |-> FALSE,
           minted |-> <<>>, setpw |-> <<>>, reused |-> {}, form |-> <<>>,
           reply |-> {}, sms |-> <<>>, down |-> FALSE, asked |-> FALSE]

\* one more call on a rate-limit key: the first if the key is absent
Called(c, s, scope) ==
    [k \in DOMAIN c \cup {scope} |->
        IF k # scope THEN c[k]
        ELSE IF StoreHas(s, scope) THEN c[scope] + 1 ELSE 1]

Unused == <<pc, seen, probe, noncelog, cycle, idm, dispatch, config, cache>>

\* POST /authenticate
Authenticate(client, auth, strict, captchaOK, schemaOK, username, password, idmUp) ==
    \E g \in {CheckForJwt(auth, now, strict)} :
    \E rl \in {ExponentialRatelimit(store, "authenticate", client, now)} :
    \E body \in {AuthenticateBody(username, password, passwd)} :
    \E status \in {IF g.raised THEN "500"
                   ELSE IF ~rl.ok THEN "429"
                   ELSE IF ~captchaOK THEN "400-recaptcha"
                   ELSE IF ~schemaOK THEN "400-schema-error"
                   ELSE IF ~idmUp THEN "500"
                   ELSE body.status} :
    LET ran    == ~g.raised /\ rl.ok /\ captchaOK /\ schemaOK
        w      == JwtEncode(NewToken(Len(origin) + 1, NS_SET_PASSWORD,
                                     <<username>>, now), SECRET)
        mint   == status = "200"
    IN  /\ store' = IF g.raised THEN store ELSE rl.store
        /\ calls' = IF g.raised THEN calls
                    ELSE Called(calls, store, RateLimitScope("authenticate", client))
        /\ issued' = IF mint THEN issued \cup {w} ELSE issued
        /\ origin' = IF mint
                     THEN Append(origin, [NoOrigin EXCEPT
                              !.via = "authenticate", !.username = username,
                              !.can = body.can, !.ver = body.ver])
                     ELSE origin
        /\ last' = [NoLast EXCEPT !.route = "authenticate", !.client = client,
                       !.auth = auth, !.status = status,
                       !.reached = ~g.raised, !.ran = ran,
                       !.down = ran /\ ~idmUp,
                       !.minted = IF mint THEN <<w>> ELSE <<>>,
                       !.form = IF ~g.raised /\ captchaOK /\ schemaOK /\ idmUp
                                THEN <<username, password>> ELSE <<>>]
        /\ UNCHANGED <<now, passwd, used, Unused>>

\* POST /sms
Identify(client, auth, strict, captchaOK, schemaOK, person, username, mobile, filterOK, sendOK, nonce, idmUp) ==
    \E g \in {CheckForJwt(auth, now, strict)} :
    \E rl \in {ExponentialRatelimit(store, "identify", client, now)} :
    \E body \in {IdentifyBody(rl.store, person, username, mobile,
                              filterOK, sendOK, nonce, now)} :
    \E status \in {IF g.raised THEN "500"
                   ELSE IF ~rl.ok THEN "429"
                   ELSE IF ~captchaOK THEN "400-recaptcha"
                   ELSE IF ~schemaOK THEN "400-schema-error"
                   ELSE IF ~idmUp THEN "500"
                   ELSE body.status} :
    LET ran    == ~g.raised /\ rl.ok /\ captchaOK /\ schemaOK
        w      == JwtEncode(NewToken(Len(origin) + 1, NS_VERIFY_NONCE,
                                     body.identifier, now), SECRET)
        mint   == status = "200"
    IN  /\ store' = IF g.raised THEN store
                    ELSE IF ran /\ idmUp THEN body.store ELSE rl.store
        /\ calls' = IF g.raised THEN calls
                    ELSE Called(calls, store, RateLimitScope("identify", client))
        /\ issued' = IF mint THEN issued \cup {w} ELSE issued
        /\ origin' = IF mint
                     THEN Append(origin, [NoOrigin EXCEPT
                              !.via = "identify", !.username = username,
                              !.nonce = nonce])
                     ELSE origin
        /\ last' = [NoLast EXCEPT !.route = "identify", !.client = client,
                       !.auth = auth, !.status = status,
                       !.reached = ~g.raised, !.ran = ran,
                       !.down = ran /\ ~idmUp,
                       !.asked = ran /\ idmUp /\ body.asked,
                       !.minted = IF mint THEN <<w>> ELSE <<>>,
                       !.form = IF ran /\ idmUp
                                THEN <<person, username, mobile, filterOK, sendOK, nonce>>
                                ELSE <<>>]
        /\ UNCHANGED <<now, passwd, used, Unused>>

\* POST /sms/verify
VerifyCode(client, auth, strict, schemaOK, nonce) ==
    \E g \in {CheckForJwt(auth, now, strict)} :
    \E rl \in {ExponentialRatelimit(store, "verify_code", client, now)} :
    \E gate \in {RequireJwt(g, Namespaces("verify_code"))} :
    \E body \in {VerifyCodeBody(rl.store, g.tok, nonce)} :
    \E status \in {IF g.raised THEN "500"
                   ELSE IF ~rl.ok THEN "429"
                   ELSE IF gate # "ok" THEN gate
                   ELSE IF ~schemaOK THEN "400-schema-error"
                   ELSE body.status} :
    LET passed == ~g.raised /\ rl.ok /\ gate = "ok"
        ran    == passed /\ schemaOK
        w      == JwtEncode(NewToken(Len(origin) + 1, NS_SET_PASSWORD,
                                     body.username, now), SECRET)
        mint   == status = "200"
    IN  /\ store' = IF g.raised THEN store
                    ELSE IF ran THEN body.store ELSE rl.store
        /\ calls' = IF g.raised THEN calls
                    ELSE Called(calls, store, RateLimitScope("verify_code", client))
        /\ issued' = IF mint THEN issued \cup {w} ELSE issued
        /\ origin' = IF mint
                     THEN Append(origin, [NoOrigin EXCEPT
                              !.via = "verify_code", !.auth = auth,
                              !.accepted = auth \in issued /\ g.present,
                              !.matched = StoreHas(store, NonceName(g.tok.identity))
                                  /\ StoreGet(store, NonceName(g.tok.identity)) = nonce])
                     ELSE origin
        /\ last' = [NoLast EXCEPT !.route = "verify_code", !.client = client,
                       !.auth = auth, !.status = status,
                       !.reached = ~g.raised, !.passed = passed, !.ran = ran,
                       !.minted = IF mint THEN <<w>> ELSE <<>>,
                       !.form = IF ran THEN <<nonce>> ELSE <<>>]
        /\ UNCHANGED <<now, passwd, used, Unused>>

\* POST /password
ChangePassword(auth, strict, schemaOK, password, idmUp, changed) ==
    \E g \in {CheckForJwt(auth, now, strict)} :
    \E gate \in {RequireJwt(g, Namespaces("change_password"))} :
    \E body \in {ChangePasswordBody(g.tok, password)} :
    \E status \in {IF g.raised THEN "500"
                   ELSE IF gate # "ok" THEN gate
                   ELSE IF ~schemaOK THEN "400-schema-error"
                   ELSE IF ~idmUp THEN "500"
                   ELSE body.status} :
    LET passed == ~g.raised /\ gate = "ok"
        ran    == passed /\ schemaOK
        set    == status = "204"
    IN  /\ passwd' = IF set /\ changed /\ Len(body.username) = 1
                        /\ body.username[1] \in Users
                     THEN [passwd EXCEPT ![body.username[1]] = password]
                     ELSE passwd
        /\ used' = IF passed THEN used \cup {<<g.tok.jti, status>>} ELSE used
        /\ last' = [NoLast EXCEPT !.route = "change_password",
                       !.auth = auth, !.status = status,
                       !.passed = passed, !.ran = ran,
                       !.down = ran /\ ~idmUp,
                       !.setpw = IF set THEN <<body.username, password>> ELSE <<>>,
                       !.reused = IF passed
                                  THEN {u[2] : u \in {x \in used : x[1] = g.tok.jti}}
                                  ELSE {}]
        /\ UNCHANGED <<now, store, calls, issued, origin, Unused>>

\* POST /renew
RenewSessionJwt(auth, strict) ==
    \E g \in {CheckForJwt(auth, now, strict)} :
    \E gate \in {RequireJwt(g, Namespaces("renew_session_jwt"))} :
    \E status \in {IF g.raised THEN "500"
                   ELSE IF gate # "ok" THEN gate
                   ELSE "200"} :
    LET passed == ~g.raised /\ gate = "ok"
        w      == JwtEncode(Renew(g.tok, now), SECRET)
        mint   == status = "200"
    IN  /\ issued' = IF mint THEN issued \cup {w} ELSE issued
        /\ last' = [NoLast EXCEPT !.route = "renew_session_jwt",
                       !.auth = auth, !.status = status,
                       !.passed = passed, !.ran = passed,
                       !.minted = IF mint THEN <<w>> ELSE <<>>]
        /\ UNCHANGED <<now, store, calls, passwd, origin, used, Unused>>

\* one second passes; redis drops the keys whose TTL ran out
Tick ==
    /\ now < MaxTime
    /\ now' = now + 1
    /\ store' = StoreAt(store, now + 1)
    /\ calls' = [k \in {x \in DOMAIN calls : StoreHas(StoreAt(store, now + 1), x)}
                    |-> calls[k]]
    /\ last' = NoLast
    /\ UNCHANGED <<passwd, issued, origin, used, served, Unused>>

\* _make_key(kind, id) for the nine facts, about person 1 and account foo
CacheKeys ==
    {<<kind, "1">> : kind \in {"person", "person-affiliations", "consents",
                               "person-contacts", "usernames"}}
    \cup {<<kind, "foo">> : kind \in {"account", "traits", "quarantine-status",
                                        "groups"}}
IdleRace == [c \in {} |-> "idle"]
NoProbe == [w |-> NoAuth, at |-> 0, leeway |-> 0, strict |-> FALSE,
            ok |-> FALSE, current |-> FALSE]

NoAsk == [identifier |-> None, nonce |-> "", result |-> FALSE]
NoNonceLog == [issue |-> [i \in {} |-> 0], ask |-> NoAsk]
NoCycle == [done |-> FALSE]
NoIdm == [op |-> "none"]
\* before any request: what the backend holds per key, and no client
NoCache ==
    [request |-> 0, backend |-> [key \in CacheKeys |-> 0],
     entries |-> [key \in {} |-> 0], fetched |-> [key \in CacheKeys |-> 0],
     read |-> <<>>]
NoConfig ==
    [set |-> FALSE, DEFAULT_EXP |-> DEFAULT_EXP, DEFAULT_NBF |-> DEFAULT_NBF,
     token |-> <<>>]
NoDispatch ==
    [pc |-> "idle", raw_number |-> "", message |-> "", whitelist_regions |-> FALSE,
     whitelist_numbers |-> FALSE, transportOK |-> TRUE, events |-> <<>>,
     sent |-> <<>>, result |-> "none"]

Init ==
    /\ now = 0
    /\ store = [k \in {} |-> [val |-> 0, exp |-> NoTTL]]
    /\ passwd = [u \in Users |-> "hunter2"]
    /\ issued = {}
    /\ origin = <<>>
    /\ used = {}
    /\ last = NoLast
    /\ served = 0
    /\ calls = [k \in {} |-> 0]
    /\ pc = IdleRace
    /\ seen = IdleRace
    /\ probe = NoProbe
    /\ noncelog = NoNonceLog
    /\ cycle = NoCycle
    /\ idm = NoIdm
    /\ dispatch = NoDispatch
    /\ config = NoConfig
    /\ cache = NoCache

\* ---- the inputs of the requests ----
\* A wrapper that fails hides everything behind it, so the first failing
\* wrapper is drawn as one value: "recaptcha", "schema", "idm" (the backend is
\* unreachable) or "ok".  Request bodies are drawn from one case per branch
\* of the handler.
Pre == {"ok", "recaptcha", "schema", "idm"}
Gated == {NoAuth, Garbage} \cup issued \cup Forged
\* PyJWT's verdict on a future iat is open only for a token that has one
Strictness(auth, t) ==
    IF auth.kind = "jwt" /\ auth.iat > t + JWT_LEEWAY THEN BOOLEAN ELSE {TRUE}
Credentials ==
    {<<"foo", "hunter2">>, <<"foo", "fido5">>, <<"foo", "hunter3">>,
     <<"bar", "hunter2">>, <<"nobody", "hunter2">>}
\* <<person, username, mobile, filterOK, sendOK>>
SmsIdentities ==
    {<<"42", "foo", "+4791000000", TRUE, TRUE>>,
     <<"1", "nobody", "+4791000000", TRUE, TRUE>>,
     <<"1", "foo", "x", TRUE, TRUE>>,
     <<"1", "foo", "+4720000042", TRUE, TRUE>>,
     <<"1", "bar", "+4791000000", TRUE, TRUE>>,
     <<"1", "foo", "+4791000000", FALSE, TRUE>>,
     <<"1", "foo", "+4791000000", TRUE, FALSE>>,
     <<"1", "foo", "+4791000000", TRUE, TRUE>>}

Served ==
    /\ served < MaxRequests
    /\ served' = served + 1

DoAuthenticate ==
    /\ Served
    /\ \/ \E client \in Clients, pre \in Pre \ {"ok"} :
            Authenticate(client, NoAuth, TRUE, pre # "recaptcha", pre # "schema",
                         "foo", "hunter2", pre # "idm")
       \/ \E client \in Clients, c \in Credentials :
            Authenticate(client, NoAuth, TRUE, TRUE, TRUE, c[1], c[2], TRUE)

DoIdentify ==
    /\ Served
    /\ \/ \E client \in Clients, pre \in Pre \ {"ok"} :
            Identify(client, NoAuth, TRUE, pre # "recaptcha", pre # "schema",
                     "1", "foo", "+4791000000", TRUE, TRUE, "n1", pre # "idm")
       \/ \E client \in Clients, d \in SmsIdentities, nonce \in Nonces :
            Identify(client, NoAuth, TRUE, TRUE, TRUE, d[1], d[2], d[3], d[4], d[5],
                     nonce, TRUE)

\* <<schemaOK, nonce>> and <<schemaOK, password, idmUp, changed>>; a header
\* that is no issued token is turned away before the body is read
NonceForms(auth) ==
    IF auth \in issued
    THEN {<<FALSE, "">>} \cup {<<TRUE, n>> : n \in Nonces \cup {""}}
    ELSE {<<TRUE, "n1">>}
PasswordForms(auth) ==
    IF auth \in issued
    THEN {<<FALSE, "hunter3", TRUE, FALSE>>, <<TRUE, "fido5", FALSE, FALSE>>}
         \cup {<<TRUE, p, TRUE, ch>> : p \in Passwords, ch \in BOOLEAN}
    ELSE {<<TRUE, "fido5", TRUE, TRUE>>, <<FALSE, "hunter3", TRUE, FALSE>>}

DoVerifyCode ==
    /\ Served
    /\ \E client \in Clients, auth \in Gated :
        \E strict \in Strictness(auth, now), f \in NonceForms(auth) :
            VerifyCode(client, auth, strict, f[1], f[2])

DoChangePassword ==
    /\ Served
    /\ \E auth \in Gated :
        \E strict \in Strictness(auth, now), f \in PasswordForms(auth) :
            ChangePassword(auth, strict, f[1], f[2], f[3], f[4])

DoRenew ==
    /\ Served
    /\ \E auth \in Gated \cup {BasicAuth} :
        \E strict \in Strictness(auth, now) : RenewSessionJwt(auth, strict)

Next ==
    \/ DoAuthenticate
    \/ DoIdentify
    \/ DoVerifyCode
    \/ DoChangePassword
    \/ DoRenew
    \/ Tick

Spec == Init /\ [][Next]_vars

\* ---- exponential_ratelimit, statement by statement, in concurrent workers ----
Workers == 1 .. MaxWorkers
RaceScope == RateLimitScope("authenticate", "c1")
Workflow == <<now, passwd, issued, origin, used, last, served, calls, probe, noncelog,
              cycle, idm>>

\* state = store.get(scope)
RaceGet(w) ==
    /\ pc[w] = "start"
    /\ seen' = [seen EXCEPT ![w] = IF StoreHas(store, RaceScope)
                                   THEN StoreGet(store, RaceScope) ELSE 0]
    /\ pc' = [pc EXCEPT ![w] = "read"]
    /\ UNCHANGED <<store, Workflow, dispatch, config, cache>>

\* store.incr(scope)
RaceIncr(w) ==
    /\ pc[w] = "read"
    /\ store' = StoreIncr(store, RaceScope)
    /\ pc' = [pc EXCEPT ![w] = "incremented"]
    /\ UNCHANGED <<seen, Workflow, dispatch, config, cache>>

\* store.expire(scope, int(state)**2), then func() or RateLimitError
RaceExpire(w) ==
    LET state == IF seen[w] = 0 THEN 1 ELSE seen[w]
    IN  /\ pc[w] = "incremented"
        /\ store' = StoreExpire(store, RaceScope, state * state, now)
        /\ pc' = [pc EXCEPT ![w] = IF seen[w] = 0 THEN "admitted" ELSE "denied"]
        /\ UNCHANGED <<seen, Workflow, dispatch, config, cache>>

InitRace ==
    /\ now = 0
    /\ store = [k \in {} |-> [val |-> 0, exp |-> NoTTL]]
    /\ passwd = [u \in Users |-> "hunter2"]
    /\ issued = {}
    /\ origin = <<>>
    /\ used = {}
    /\ last = NoLast
    /\ served = 0
    /\ calls = [k \in {} |-> 0]
    /\ pc = [w \in Workers |-> "start"]
    /\ seen = [w \in Workers |-> 0]
    /\ probe = NoProbe
    /\ noncelog = NoNonceLog
    /\ cycle = NoCycle
    /\ idm = NoIdm
    /\ dispatch = NoDispatch
    /\ config = NoConfig
    /\ cache = NoCache

NextRace ==
    \E w \in Workers :
        \/ RaceGet(w)
        \/ RaceIncr(w)
        \/ RaceExpire(w)

SpecRace == InitRace /\ [][NextRace]_vars

\* ---- jwt_decode on its own ----
Clock == 0 .. MaxClock
WireTokens ==
    {[kind |-> "jwt", sig |-> sg, claims |-> cl, jti |-> 1,
      sub |-> Sub(NS_SET_PASSWORD, <<"foo">>), iss |-> None,
      iat |-> i, nbf |-> n, exp |-> e] :
        sg \in {SECRET, "other-secret"},
        cl \in {RequiredClaims} \cup {RequiredClaims \ {c} : c \in RequiredClaims},
        i \in Clock, n \in Clock, e \in Clock}

\* the token arrives at time t: jwt_decode with the given leeway, and
\* _check_for_jwt with the application's
Decode(w, leeway, t, strict) ==
    /\ probe' = [w |-> w, at |-> t, leeway |-> leeway, strict |-> strict,
                 ok |-> JwtDecodeOK(w, SECRET, leeway, t, strict),
                 current |-> CheckForJwt(w, t, strict).present]
    /\ UNCHANGED <<now, store, passwd, issued, origin, used, last, served, calls,
                   pc, seen, noncelog, cycle, idm, dispatch, config, cache>>

\* one token is presented in each behaviour
NextDecode ==
    /\ probe = NoProbe
    /\ \E w \in WireTokens, leeway \in {0, JWT_LEEWAY}, t \in Clock,
          strict \in BOOLEAN :
            Decode(w, leeway, t, strict)

SpecDecode == Init /\ [][NextDecode]_vars

\* ---- the rate limiter over time: the calls stop, the clock goes on ----
\* long enough for the longest penalty set at MaxTime to run out
Horizon == MaxTime + MaxRequests * MaxRequests
LimitKeys == {RateLimitScope(a, c) : a \in LimitedRoutes, c \in Clients}

LiveCall ==
    /\ Served
    /\ now <= MaxTime
    /\ \E client \in Clients, c \in Credentials :
          Authenticate(client, NoAuth, TRUE, TRUE, TRUE, c[1], c[2], TRUE)

LiveTick ==
    /\ now < Horizon
    /\ now' = now + 1
    /\ store' = StoreAt(store, now + 1)
    /\ calls' = [k \in {x \in DOMAIN calls : StoreHas(StoreAt(store, now + 1), x)}
                    |-> calls[k]]
    /\ last' = NoLast
    /\ UNCHANGED <<passwd, issued, origin, used, served, Unused>>

NextLive ==
    \/ LiveCall
    \/ LiveTick

\* the clock does not stop
SpecLive == Init /\ [][NextLive]_vars /\ WF_vars(LiveTick)

\* ---- save_nonce, check_nonce and clear_nonce on their own ----
Identifiers == {<<"foo", "+4791000000">>, <<"bar", "+4791000000">>}
Durations == {1, 2}
Untouched ==
    <<passwd, issued, origin, used, last, served, calls, pc, seen, probe, cycle, idm,
      dispatch, config, cache>>

\* the log of an issue: the nonce, when it runs out, whether it was cleared
Issued(log, identifier, nonce, until) ==
    [i \in DOMAIN log \cup {identifier} |->
        IF i = identifier
        THEN [nonce |-> nonce, until |-> until, cleared |-> FALSE]
        ELSE log[i]]

NonceSave(identifier, nonce, duration) ==
    /\ store' = SaveNonce(store, identifier, nonce, duration, now)
    /\ noncelog' = [issue |-> Issued(noncelog.issue, identifier, nonce, now + duration),
                    ask |-> NoAsk]
    /\ UNCHANGED <<now, Untouched, dispatch, config, cache>>

NonceClear(identifier) ==
    /\ store' = ClearNonce(store, identifier)
    /\ noncelog' = [issue |-> [i \in DOMAIN noncelog.issue |->
                                 IF i = identifier
                                 THEN [noncelog.issue[i] EXCEPT !.cleared = TRUE]
                                 ELSE noncelog.issue[i]],
                    ask |-> NoAsk]
    /\ UNCHANGED <<now, Untouched, dispatch, config, cache>>

NonceCheck(identifier, nonce) ==
    /\ noncelog' = [noncelog EXCEPT !.ask =
                       [identifier |-> identifier, nonce |-> nonce,
                        result |-> CheckNonce(store, identifier, nonce)]]
    /\ UNCHANGED <<now, store, Untouched, dispatch, config, cache>>

NonceTick ==
    /\ now < MaxTime
    /\ now' = now + 1
    /\ store' = StoreAt(store, now + 1)
    /\ noncelog' = [noncelog EXCEPT !.ask = NoAsk]
    /\ UNCHANGED Untouched

NextNonce ==
    \/ \E identifier \in Identifiers, nonce \in Nonces, duration \in Durations :
          NonceSave(identifier, nonce, duration)
    \/ \E identifier \in Identifiers : NonceClear(identifier)
    \/ \E identifier \in Identifiers, nonce \in Nonces \cup {""} :
          NonceCheck(identifier, nonce)
    \/ NonceTick

SpecNonce == Init /\ [][NextNonce]_vars

\* ---- the SMS workflow on its own: /sms, /sms/verify and the clock ----
\* the forms of SmsIdentities, the registered number typed with a space or
\* with a prefix, and an account that may not use the service with a number
\* or a person that is not its own
SmsForms ==
    SmsIdentities \cup {<<"1", "foo", "+47 91000000", TRUE, TRUE>>,
                        <<"1", "foo", "tel:+4791000000", TRUE, TRUE>>,
                        <<"1", "bar", "+4720000042", TRUE, TRUE>>,
                        <<"2", "bar", "+4720000002", TRUE, TRUE>>}

DoIdentifySms ==
    /\ Served
    /\ \E client \in Clients, d \in SmsForms, nonce \in Nonces :
          Identify(client, NoAuth, TRUE, TRUE, TRUE, d[1], d[2], d[3], d[4], d[5],
                   nonce, TRUE)

NextSms ==
    \/ DoIdentifySms
    \/ DoVerifyCode
    \/ Tick

SpecSms == Init /\ [][NextSms]_vars

\* ---- a fresh token, encoded and decoded at once (test_encode_decode_cycle) ----
CycleNamespaces == {None, EmptyStr, <<"test_namespace">>, <<"a", "b">>}
CycleIdentities == {None, EmptyStr, <<"test_identity">>, <<"foo", "+4791000000">>}
CycleIssuers == {None, EmptyStr, <<"some_issuer">>}

EncodeDecodeCycle(namespace, identity, issuer, t, f) ==
    /\ cycle = NoCycle
    /\ \E token \in {[New(1, namespace, identity, issuer, t) EXCEPT !.frac = f]} :
       \E value \in {JwtEncode(token, SECRET)} :
          cycle' = [done |-> TRUE, token |-> token,
                    ok |-> JwtDecodeOK(value, SECRET, 0, t, TRUE),
                    copy |-> FromPayload(value)]
    /\ UNCHANGED <<now, store, passwd, issued, origin, used, last, served, calls,
                   pc, seen, probe, noncelog, idm, dispatch, config, cache>>

NextCycle ==
    \E namespace \in CycleNamespaces, identity \in CycleIdentities,
       issuer \in CycleIssuers, t \in Clock, f \in 0 .. MaxFrac :
          EncodeDecodeCycle(namespace, identity, issuer, t, f)

SpecCycle == Init /\ [][NextCycle]_vars

\* ---- the Cerebrum client on its own ----
\* the client's configuration
AcceptedQuarantines == {"autopassord"}
ReservedGroups == {"foobar"}

\* _account_is_quarantined: a quarantine whose type is not accepted (and is
\* not empty)
AccountIsQuarantined(quarantines) ==
    \E x \in quarantines : x \notin AcceptedQuarantines /\ x # ""
\* is_reserved_group over _get_group_memberships, which asks the API for the
\* indirect memberships too and keeps the names
GroupMemberships(groups) == {group.name : group \in groups}
InReservedGroup(groups) == \E name \in GroupMemberships(groups) : name \in ReservedGroups
\* _account_is_self_reserved
AccountIsSelfReserved(traits) ==
    \E trait \in traits : trait.trait = "pasw_reserved" /\ trait.number = 1

\* variant: the quarantines are looked at before the account's state
CerebrumCanUseSmsServiceQuarantineFirst(active, quarantines, groups, traits) ==
    IF AccountIsQuarantined(quarantines) THEN "quarantined"
    ELSE IF ~active THEN "inactive-account"
    ELSE IF InReservedGroup(groups) THEN "reserved-by-group-membership"
    ELSE IF AccountIsSelfReserved(traits) THEN "reserved-by-self"
    ELSE "true"

\* CerebrumClient.can_use_sms_service: "true", or the reason of the
\* IdmClientException it raises
CerebrumCanUseSmsService(active, quarantines, groups, traits) ==
    IF ~active THEN "inactive-account"
    ELSE IF AccountIsQuarantined(quarantines) THEN "quarantined"
    ELSE IF InReservedGroup(groups) THEN "reserved-by-group-membership"
    ELSE IF AccountIsSelfReserved(traits) THEN "reserved-by-self"
    ELSE "true"

\* what the API may say about an account
QuarantineTypes == {"autopassord", "bad-manners"}
GroupEntries ==
    {[name |-> "foobar", direct |-> TRUE], [name |-> "foobar", direct |-> FALSE],
     [name |-> "users", direct |-> TRUE]}
TraitEntries ==
    {[trait |-> "pasw_reserved", number |-> 1], [trait |-> "pasw_reserved", number |-> 0],
     [trait |-> "new_student", number |-> 0], [trait |-> "sysadm_account", number |-> 0]}

CanUseSmsServiceCall(active, quarantines, groups, traits) ==
    /\ idm = NoIdm
    /\ idm' = [op |-> "can_use_sms_service", active |-> active,
               quarantines |-> quarantines, groups |-> groups, traits |-> traits,
               result |-> CerebrumCanUseSmsService(active, quarantines, groups, traits)]
    /\ UNCHANGED <<now, store, passwd, issued, origin, used, last, served, calls,
                   pc, seen, probe, noncelog, cycle, dispatch, config, cache>>

\* dates are days before now; NoDate stands for a date that is None
NoDate == -1
AFF_GRACE_DAYS == 7
\* the configured contact types, in the order of add_contact_type
ContactTypes ==
    <<[system |-> "A", ctype |-> "cell", delay |-> 0],
      [system |-> "B", ctype |-> "cell", delay |-> 7]>>

\* ContactType.__eq__ against a contact record
SameContactType(x, item) == x.system = item.source_system /\ x.ctype = item.type

\* variant: a fresh entity is treated as any other
IsValidContactNoFresh(item, fresh) ==
    LET valid_type == SelectSeq(ContactTypes, LAMBDA x : SameContactType(x, item))
    IN  IF valid_type = <<>> THEN FALSE
        ELSE IF valid_type[Len(valid_type)].delay = 0 THEN TRUE
        ELSE IF item.last_modified = NoDate THEN TRUE
        ELSE item.last_modified > valid_type[Len(valid_type)].delay

\* is_valid_contact: the type is configured, and the contact was last
\* modified longer ago than the delay of the last configured type it matches
IsValidContact(item, fresh) ==
    LET valid_type == SelectSeq(ContactTypes, LAMBDA x : SameContactType(x, item))
    IN  IF valid_type = <<>> THEN FALSE
        ELSE IF valid_type[Len(valid_type)].delay = 0 \/ fresh THEN TRUE
        ELSE IF item.last_modified = NoDate THEN TRUE
        ELSE item.last_modified > valid_type[Len(valid_type)].delay

\* variant: a deleted affiliation is never valid
AffiliationIsValidNoGrace(aff) == aff.deleted_date = NoDate

\* _affiliation_is_valid: not deleted, or deleted after the cutoff
AffiliationIsValid(aff) ==
    IF aff.deleted_date = NoDate THEN TRUE ELSE aff.deleted_date < AFF_GRACE_DAYS

\* _person_has_affiliation_from
PersonHasAffiliationFrom(affiliations, source_system) ==
    \E x \in affiliations : source_system = x.source_system /\ AffiliationIsValid(x)

\* the values of the contacts kept, in their order
Values(kept) == [i \in 1 .. Len(kept) |-> kept[i].value]

\* the loop over the priorities: the answer at the first source system the
\* person has an affiliation from; None when the loop runs out
RECURSIVE FromPriorities(_, _, _, _)
FromPriorities(priorities, contacts, affiliations, fresh) ==
    IF priorities = <<>> THEN [none |-> TRUE, numbers |-> <<>>]
    ELSE IF ~PersonHasAffiliationFrom(affiliations, Head(priorities))
    THEN FromPriorities(Tail(priorities), contacts, affiliations, fresh)
    ELSE [none |-> FALSE,
          numbers |-> Values(SelectSeq(contacts, LAMBDA item :
                         /\ item.source_system = Head(priorities)
                         /\ IsValidContact(item, fresh)))]

\* variant: the priorities are not looked at
GetMobileNumbersMerged(priorities, contacts, affiliations, fresh) ==
    [none |-> FALSE,
     numbers |-> Values(SelectSeq(contacts, LAMBDA item :
                    /\ IsValidContact(item, fresh)
                    /\ PersonHasAffiliationFrom(affiliations, item.source_system)))]

\* CerebrumClient.get_mobile_numbers
GetMobileNumbers(priorities, contacts, affiliations, fresh) ==
    IF priorities = <<>>
    THEN [none |-> FALSE,
          numbers |-> Values(SelectSeq(contacts, LAMBDA item :
                         /\ IsValidContact(item, fresh)
                         /\ PersonHasAffiliationFrom(affiliations, item.source_system)))]
    ELSE FromPriorities(priorities, contacts, affiliations, fresh)

\* identify: [parse_number(x) for x in client.get_mobile_numbers(...)], which
\* raises TypeError when the result is None
IterateNumbers(result) ==
    IF result.none THEN "TypeError" ELSE "list"

\* what the API may say about a person: any of three contacts, the one from
\* B modified 3 or 20 days ago, and any of four affiliations
ContactLists ==
    {(IF a THEN <<[source_system |-> "A", type |-> "cell", value |-> "num1",
                   last_modified |-> NoDate]>> ELSE <<>>)
     \o (IF f THEN <<[source_system |-> "A", type |-> "fax", value |-> "num3",
                      last_modified |-> NoDate]>> ELSE <<>>)
     \o (IF b THEN <<[source_system |-> "B", type |-> "cell", value |-> "num2",
                      last_modified |-> m]>> ELSE <<>>) :
        a \in BOOLEAN, f \in BOOLEAN, b \in BOOLEAN, m \in {3, 20}}
AffiliationSets ==
    SUBSET {[source_system |-> "A", deleted_date |-> NoDate],
            [source_system |-> "A", deleted_date |-> 365],
            [source_system |-> "B", deleted_date |-> 3],
            [source_system |-> "B", deleted_date |-> 365]}
PriorityLists == {<<>>, <<"A", "B">>, <<"B", "A">>}

GetMobileNumbersCall(priorities, contacts, affiliations, fresh) ==
    /\ idm = NoIdm
    /\ idm' = [op |-> "get_mobile_numbers", priorities |-> priorities,
               contacts |-> contacts, affiliations |-> affiliations, fresh |-> fresh,
               result |-> GetMobileNumbers(priorities, contacts, affiliations, fresh)]
    /\ UNCHANGED <<now, store, passwd, issued, origin, used, last, served, calls,
                   pc, seen, probe, noncelog, cycle, dispatch, config, cache>>

\* the contact records the API may hand over: last modified never, or 3, 7
\* or 20 days ago
ContactItems ==
    {[source_system |-> s, type |-> ty, value |-> "num1", last_modified |-> m] :
        s \in {"A", "B"}, ty \in {"cell", "fax"}, m \in {NoDate, 3, 7, 20}}

IsValidContactCall(item, fresh) ==
    /\ idm = NoIdm
    /\ idm' = [op |-> "is_valid_contact", item |-> item, fresh |-> fresh,
               result |-> IsValidContact(item, fresh)]
    /\ UNCHANGED <<now, store, passwd, issued, origin, used, last, served, calls,
                   pc, seen, probe, noncelog, cycle, dispatch, config, cache>>

\* a trait as the API gives it; the date counts the days before now
DatedTraits ==
    {[trait |-> t, date |-> d] : t \in {"new_student", "sms_welcome", "pasw_reserved"},
                                 d \in {NoDate, 3, 20}}
\* _fresh_days as __init__ sets it
FRESH_DAYS == 10

\* _account_is_fresh: the traits new_student and sms_welcome that carry a
\* date are kept, and the loop over them returns in its first round
AccountIsFresh(traits) ==
    LET kept == SelectSeq(traits, LAMBDA x :
                    x.trait \in {"new_student", "sms_welcome"} /\ x.date # NoDate)
    IN  IF kept = <<>> THEN FALSE ELSE kept[1].date < FRESH_DAYS

AccountIsFreshCall(traits) ==
    /\ idm = NoIdm
    /\ idm' = [op |-> "account_is_fresh", traits |-> traits,
               result |-> AccountIsFresh(traits)]
    /\ UNCHANGED <<now, store, passwd, issued, origin, used, last, served, calls,
                   pc, seen, probe, noncelog, cycle, dispatch, config, cache>>

NextCerebrum ==
    \/ \E item \in ContactItems, fresh \in BOOLEAN : IsValidContactCall(item, fresh)
    \/ \E first \in DatedTraits, second \in DatedTraits :
          \E traits \in {<<>>, <<first>>, <<first, second>>} : AccountIsFreshCall(traits)
    \/ \E active \in BOOLEAN, quarantines \in SUBSET QuarantineTypes,
          groups \in SUBSET GroupEntries, traits \in SUBSET TraitEntries :
            CanUseSmsServiceCall(active, quarantines, groups, traits)
    \/ \E priorities \in PriorityLists, contacts \in ContactLists,
          affiliations \in AffiliationSets, fresh \in BOOLEAN :
            GetMobileNumbersCall(priorities, contacts, affiliations, fresh)

SpecCerebrum == Init /\ [][NextCerebrum]_vars

\* ---- POST /list-usernames on its own ----
\* variant: what send_sms raises is not caught
ListForPersonBodyNoCatch(person, smsOK) ==
    LET recipient == PreferredMobileNumber(person)
        message   == <<[to |-> recipient[1], usernames |-> UsersOf(person)]>>
    IN  IF person \notin Persons \/ UsersOf(person) = {}
        THEN [status |-> "400-not-found", reply |-> {}, sms |-> <<>>]
        ELSE IF CanShowUsernames(person)
        THEN [status |-> "200", reply |-> UsersOf(person), sms |-> <<>>]
        ELSE IF recipient = None
        THEN [status |-> "400-not-found", reply |-> {}, sms |-> <<>>]
        ELSE [status |-> IF smsOK THEN "400-not-found" ELSE "500",
              reply |-> {}, sms |-> message]

\* list_for_person(): the answer, the usernames in it, the messages handed to
\* send_sms (smsOK: send_sms returns rather than raises)
ListForPersonBody(person, smsOK) ==
    LET recipient == PreferredMobileNumber(person)
    IN  IF person \notin Persons
        THEN [status |-> "400-not-found", reply |-> {}, sms |-> <<>>]
        ELSE IF UsersOf(person) = {}
        THEN [status |-> "400-not-found", reply |-> {}, sms |-> <<>>]
        ELSE IF ~CanShowUsernames(person)
        THEN [status |-> "400-not-found", reply |-> {},
              sms |-> IF recipient # None
                      THEN <<[to |-> recipient[1], usernames |-> UsersOf(person)]>>
                      ELSE <<>>]
        ELSE [status |-> "200", reply |-> UsersOf(person), sms |-> <<>>]

ListForPerson(client, auth, strict, captchaOK, schemaOK, person, smsOK, idmUp) ==
    \E g \in {CheckForJwt(auth, now, strict)} :
    \E rl \in {ExponentialRatelimit(store, "list_for_person", client, now)} :
    \E body \in {ListForPersonBody(person, smsOK)} :
    \E status \in {IF g.raised THEN "500"
                   ELSE IF ~rl.ok THEN "429"
                   ELSE IF ~captchaOK THEN "400-recaptcha"
                   ELSE IF ~schemaOK THEN "400-schema-error"
                   ELSE IF ~idmUp THEN "500"
                   ELSE body.status} :
    LET ran    == ~g.raised /\ rl.ok /\ captchaOK /\ schemaOK
        done   == ran /\ idmUp
    IN  /\ store' = IF g.raised THEN store ELSE rl.store
        /\ calls' = IF g.raised THEN calls
                    ELSE Called(calls, store, RateLimitScope("list_for_person", client))
        /\ last' = [NoLast EXCEPT !.route = "list_for_person", !.client = client,
                       !.auth = auth, !.status = status,
                       !.reached = ~g.raised, !.ran = ran,
                       !.down = ran /\ ~idmUp,
                       !.form = IF done THEN <<person, smsOK>> ELSE <<>>,
                       !.reply = IF done THEN body.reply ELSE {},
                       !.sms = IF done THEN body.sms ELSE <<>>]
        /\ UNCHANGED <<now, passwd, issued, origin, used, Unused>>

\* asked about: a showable person, two reserved persons (with and without a
\* number on record), a person without accounts, nobody
DoListForPerson ==
    /\ Served
    /\ \/ \E client \in Clients, pre \in Pre \ {"ok"} :
            ListForPerson(client, NoAuth, TRUE, pre # "recaptcha", pre # "schema",
                          "2", TRUE, pre # "idm")
       \/ \E client \in Clients, person \in {"1", "2", "3", "4", "42"}, smsOK \in BOOLEAN :
            ListForPerson(client, NoAuth, TRUE, TRUE, TRUE, person, smsOK, TRUE)

NextUsernames ==
    \/ DoListForPerson
    \/ Tick

SpecUsernames == Init /\ [][NextUsernames]_vars

\* ---- SmsDispatcher.__call__ on its own, one step at a time ----
\* phonenumbers.is_valid_number, and the country code of a parsed number
IsValidNumber(number) == number \in {"+4791000000", "+4720000002", "+46701234567"}
CountryCode(number) == IF number = "+46701234567" THEN 46 ELSE 47
\* add_region and add_number have put Norway (47) on the region whitelist and
\* +4791000000 on the number whitelist

\* variant: filter() without the region whitelist
FilterNoRegion(number, whitelist_regions, whitelist_numbers) ==
    IF number = None THEN "unparseable-phone-number"
    ELSE IF ~IsValidNumber(number[1]) THEN "invalid-phone-number"
    ELSE IF ~(~whitelist_numbers \/ number \in {<<"+4791000000">>})
    THEN "not-whitelisted"
    ELSE "pass"

\* filter(): the reason of the FilterException it raises, "pass" when it returns
Filter(number, whitelist_regions, whitelist_numbers) ==
    IF number = None THEN "unparseable-phone-number"
    ELSE IF ~IsValidNumber(number[1]) THEN "invalid-phone-number"
    ELSE IF ~(~whitelist_regions \/ CountryCode(number[1]) \in {47})
    THEN "invalid-region"
    ELSE IF ~(~whitelist_numbers \/ number \in {<<"+4791000000">>})
    THEN "not-whitelisted"
    ELSE "pass"

\* the call begins: sms.pre is sent
DispatchCall(raw_number, message, whitelist_regions, whitelist_numbers, transportOK) ==
    /\ dispatch.pc \in {"idle", "returned"}
    /\ Served
    /\ dispatch' = [NoDispatch EXCEPT
                       !.pc = "filter", !.raw_number = raw_number,
                       !.message = message,
                       !.whitelist_regions = whitelist_regions,
                       !.whitelist_numbers = whitelist_numbers,
                       !.transportOK = transportOK,
                       !.events = <<[name |-> "sms.pre", raw_number |-> raw_number,
                                     message |-> message, reason |-> ""]>>]
    /\ UNCHANGED <<now, store, passwd, issued, origin, used, last, calls,
                   pc, seen, probe, noncelog, cycle, idm, config, cache>>

\* parse and filter: a FilterException ends the call with sms.filtered
DispatchFilter ==
    /\ dispatch.pc = "filter"
    /\ \E reason \in {Filter(ParseNumber(dispatch.raw_number),
                             dispatch.whitelist_regions,
                             dispatch.whitelist_numbers)} :
          dispatch' = IF reason = "pass"
                      THEN [dispatch EXCEPT !.pc = "send"]
                      ELSE [dispatch EXCEPT
                               !.pc = "returned", !.result = "false",
                               !.events = Append(@, [name |-> "sms.filtered",
                                                     raw_number |-> dispatch.raw_number,
                                                     message |-> dispatch.message,
                                                     reason |-> reason])]
    /\ UNCHANGED <<now, store, passwd, issued, origin, used, last, served, calls,
                   pc, seen, probe, noncelog, cycle, idm, config, cache>>

\* _send: what it raises is caught and ends the call with sms.error
DispatchSend ==
    /\ dispatch.pc = "send"
    /\ dispatch' = [dispatch EXCEPT
                       !.pc = "returned",
                       !.sent = Append(@, <<ParseNumber(dispatch.raw_number),
                                            dispatch.message>>),
                       !.result = IF dispatch.transportOK THEN "true" ELSE "false",
                       !.events = Append(@, [name |-> IF dispatch.transportOK
                                                      THEN "sms.sent" ELSE "sms.error",
                                             raw_number |-> dispatch.raw_number,
                                             message |-> dispatch.message,
                                             reason |-> ""])]
    /\ UNCHANGED <<now, store, passwd, issued, origin, used, last, served, calls,
                   pc, seen, probe, noncelog, cycle, idm, config, cache>>

NextDispatch ==
    \/ \E raw_number \in {"x", "+4700000000", "+4791000000", "+4720000002",
                          "+46701234567"},
          message \in {"foo", "bar"},
          whitelist_regions \in BOOLEAN, whitelist_numbers \in BOOLEAN,
          transportOK \in BOOLEAN :
            DispatchCall(raw_number, message, whitelist_regions, whitelist_numbers,
                         transportOK)
    \/ DispatchFilter
    \/ DispatchSend

SpecDispatch == Init /\ [][NextDispatch]_vars

\* ---- init_app with configured offsets, and the tokens made after it ----
\* JWT_EXPIRATION and JWT_NOT_BEFORE are seconds (or timedeltas); init_app
\* puts them in JWTAuthToken.DEFAULT_EXP and DEFAULT_NBF as they are
InitApp(JWT_EXPIRATION, JWT_NOT_BEFORE) ==
    /\ ~config.set
    /\ config' = [config EXCEPT !.set = TRUE, !.DEFAULT_EXP = JWT_EXPIRATION,
                                !.DEFAULT_NBF = JWT_NOT_BEFORE]
    /\ UNCHANGED <<now, store, passwd, issued, origin, used, last, served, calls,
                   pc, seen, probe, noncelog, cycle, idm, dispatch, cache>>

\* JWTAuthToken.new under the configured offsets
ConfiguredNew(t) ==
    /\ config.set
    /\ config.token = <<>>
    /\ config' = [config EXCEPT !.token =
                     <<[NewToken(1, NS_SET_PASSWORD, <<"foo">>, t) EXCEPT
                           !.nbf = t + config.DEFAULT_NBF,
                           !.exp = t + config.DEFAULT_EXP]>>]
    /\ UNCHANGED <<now, store, passwd, issued, origin, used, last, served, calls,
                   pc, seen, probe, noncelog, cycle, idm, dispatch, cache>>

\* JWTAuthToken.renew under the configured offsets: utcnow is read twice
ConfiguredRenew(t, later) ==
    /\ config.token # <<>>
    /\ t >= config.token[1].iat
    /\ config' = [config EXCEPT !.token =
                     <<[config.token[1] EXCEPT
                           !.nbf = t + config.DEFAULT_NBF,
                           !.exp = later + config.DEFAULT_EXP]>>]
    /\ UNCHANGED <<now, store, passwd, issued, origin, used, last, served, calls,
                   pc, seen, probe, noncelog, cycle, idm, dispatch, cache>>

NextConfig ==
    \/ \E JWT_EXPIRATION \in 0 .. MaxOffset, JWT_NOT_BEFORE \in 0 .. MaxOffset :
          InitApp(JWT_EXPIRATION, JWT_NOT_BEFORE)
    \/ \E t \in Clock : ConfiguredNew(t)
    \/ \E t \in Clock : \E later \in {t, t + 1} : ConfiguredRenew(t, later)

SpecConfig == Init /\ [][NextConfig]_vars

\* ---- the cache of the CerebrumClient, over the requests of one worker ----
\* variant: the getter asks the backend every time
CachedGetAlways(c, key) ==
    [c EXCEPT !.entries = [k \in DOMAIN c.entries \cup {key} |->
                              IF k = key THEN c.backend[key] ELSE c.entries[k]],
              !.fetched[key] = @ + 1,
              !.read = <<key, c.backend[key]>>]

\* _get_person_info and its eight siblings: _do_get and store under the key
\* if the key is not in the cache, then return what the cache has
CachedGet(c, key) ==
    IF key \in DOMAIN c.entries
    THEN [c EXCEPT !.read = <<key, c.entries[key]>>]
    ELSE [c EXCEPT !.entries = [k \in DOMAIN c.entries \cup {key} |->
                                   IF k = key THEN c.backend[key] ELSE c.entries[k]],
                   !.fetched[key] = @ + 1,
                   !.read = <<key, c.backend[key]>>]

\* a request begins: get_idm_client builds a client, whose cache is a new dict
CacheNewRequest ==
    /\ cache.request < MaxRequests
    /\ cache' = [cache EXCEPT !.request = @ + 1, !.entries = [key \in {} |-> 0],
                              !.fetched = [key \in CacheKeys |-> 0], !.read = <<>>]
    /\ UNCHANGED <<now, store, passwd, issued, origin, used, last, served, calls,
                   pc, seen, probe, noncelog, cycle, idm, dispatch, config>>

\* the client of the request reads a fact
CacheRead(key) ==
    /\ cache.request > 0
    /\ cache' = CachedGet(cache, key)
    /\ UNCHANGED <<now, store, passwd, issued, origin, used, last, served, calls,
                   pc, seen, probe, noncelog, cycle, idm, dispatch, config>>

\* Cerebrum changes what it holds for a key, during or between requests
CacheBackendChange(key) ==
    /\ cache.backend[key] < MaxVersion
    /\ cache' = [cache EXCEPT !.backend[key] = @ + 1, !.read = <<>>]
    /\ UNCHANGED <<now, store, passwd, issued, origin, used, last, served, calls,
                   pc, seen, probe, noncelog, cycle, idm, dispatch, config>>

NextCache ==
    \/ CacheNewRequest
    \/ \E key \in {<<"traits", "foo">>, <<"person", "1">>} : CacheRead(key)
    \/ \E key \in {<<"traits", "foo">>, <<"person", "1">>} : CacheBackendChange(key)

SpecCache == Init /\ [][NextCache]_vars

\* ---- /sms requests served side by side, one step of identify at a time ----
\* what a worker holds while it serves POST /sms: the form and its nonce
NoJob == [username |-> "", mobile |-> "", nonce |-> ""]
ParallelForms == {<<"1", "foo", "+4791000000">>, <<"1", "bar", "+4791000000">>}
Bystanders ==
    <<now, passwd, used, last, served, calls, probe, noncelog, cycle, idm, config,
      cache>>

\* exponential_ratelimit, the checks of identify and generate_nonce
IdentifyEnter(w, client, person, username, mobile, nonce) ==
    \E rl \in {ExponentialRatelimit(store, "identify", client, now)} :
    \E body \in {IdentifyBody(rl.store, person, username, mobile, TRUE, TRUE,
                              nonce, now)} :
        /\ pc[w] = "start"
        /\ store' = rl.store
        /\ pc' = [pc EXCEPT ![w] = IF ~rl.ok THEN "429"
                                   ELSE IF body.status = "200" THEN "save_nonce"
                                   ELSE body.status]
        /\ seen' = [seen EXCEPT ![w] = IF rl.ok /\ body.status = "200"
                                       THEN [username |-> username,
                                             mobile |-> mobile, nonce |-> nonce]
                                       ELSE NoJob]
        /\ UNCHANGED <<issued, origin, dispatch, Bystanders>>

\* save_nonce(identifier, nonce, expire)
IdentifySaveNonce(w) ==
    /\ pc[w] = "save_nonce"
    /\ store' = SaveNonce(store, <<seen[w].username>> \o Segments(seen[w].mobile),
                          seen[w].nonce, NonceExpireSeconds, now)
    /\ pc' = [pc EXCEPT ![w] = "send_sms"]
    /\ UNCHANGED <<seen, issued, origin, dispatch, Bystanders>>

\* send_sms(mobile, message), then ServiceUnavailable or the token
IdentifySendSms(w, sendOK) ==
    LET identifier == <<seen[w].username>> \o Segments(seen[w].mobile)
        token      == JwtEncode(NewToken(Len(origin) + 1, NS_VERIFY_NONCE,
                                         identifier, now), SECRET)
    IN  /\ pc[w] = "send_sms"
        /\ dispatch' = [dispatch EXCEPT
                           !.sent = IF sendOK
                                    THEN Append(@, <<ParseNumber(seen[w].mobile),
                                                     seen[w].nonce>>)
                                    ELSE @]
        /\ issued' = IF sendOK THEN issued \cup {token} ELSE issued
        /\ origin' = IF sendOK
                     THEN Append(origin, [NoOrigin EXCEPT
                              !.via = "identify", !.username = seen[w].username,
                              !.nonce = seen[w].nonce])
                     ELSE origin
        /\ pc' = [pc EXCEPT ![w] = IF sendOK THEN "200"
                                   ELSE "403-service-unavailable"]
        /\ UNCHANGED <<store, seen, Bystanders>>

InitParallel ==
    /\ now = 0
    /\ store = [k \in {} |-> [val |-> 0, exp |-> NoTTL]]
    /\ passwd = [u \in Users |-> "hunter2"]
    /\ issued = {}
    /\ origin = <<>>
    /\ used = {}
    /\ last = NoLast
    /\ served = 0
    /\ calls = [k \in {} |-> 0]
    /\ pc = [w \in Workers |-> "start"]
    /\ seen = [w \in Workers |-> NoJob]
    /\ probe = NoProbe
    /\ noncelog = NoNonceLog
    /\ cycle = NoCycle
    /\ idm = NoIdm
    /\ dispatch = NoDispatch
    /\ config = NoConfig
    /\ cache = NoCache

NextParallel ==
    \/ \E w \in Workers, client \in Clients, form \in ParallelForms,
          nonce \in Nonces :
            IdentifyEnter(w, client, form[1], form[2], form[3], nonce)
    \/ \E w \in Workers : IdentifySaveNonce(w)
    \/ \E w \in Workers, sendOK \in BOOLEAN : IdentifySendSms(w, sendOK)
    \/ Tick

SpecParallel == InitParallel /\ [][NextParallel]_vars

\* ==== the claims ====
\* a token the server signed, presented inside its validity window
InWindow(w, t) == w.nbf - JWT_LEEWAY <= t /\ t <= w.exp + JWT_LEEWAY
Verifies(w, t) == w \in issued /\ InWindow(w, t)
\* the request just answered presented a token that verifies
Valid == Verifies(last.auth, now)
WrongNamespace ==
    /\ last.route \in GatedRoutes
    /\ Valid
    /\ Namespaces(last.route) # {}
    /\ SubNamespace(last.auth.sub) \notin Namespaces(last.route)
RightNamespace ==
    /\ last.route \in GatedRoutes
    /\ Valid
    /\ \/ Namespaces(last.route) = {}
       \/ SubNamespace(last.auth.sub) \in Namespaces(last.route)
NonceStore(s) == [k \in {x \in DOMAIN s : x[1] = NONCE_PREFIX} |-> s[k]]
LastScope == RateLimitScope(last.route, last.client)

\* C1: every allow-set-password token for u that exists was minted by
\* authenticate in a request where can_authenticate(u) and
\* verify_current_password(u, password) both returned true, or by verify_code
\* in a request that presented a valid allow-verify-nonce token for 'u:m' and
\* the nonce stored for 'u:m', or is a renewal of such a token: a renewal
\* carries the jti and the subject of the token it renews.
C1_SetPasswordProvenance ==
    \A w \in issued :
        SubNamespace(w.sub) = NS_SET_PASSWORD =>
            LET o == origin[w.jti]
                u == SubIdentity(w.sub)
            IN  \/ /\ o.via = "authenticate"
                   /\ o.can
                   /\ o.ver
                   /\ u = <<o.username>>
                \/ /\ o.via = "verify_code"
                   /\ o.accepted
                   /\ o.matched
                   /\ SubNamespace(o.auth.sub) = NS_VERIFY_NONCE
                   /\ Len(SubIdentity(o.auth.sub)) = 2
                   /\ u = <<SubIdentity(o.auth.sub)[1]>>

C1_MintedByVerifyCode ==
    /\ last.route = "verify_code"
    /\ last.minted # <<>>
    /\ SubNamespace(last.minted[1].sub) = NS_SET_PASSWORD
    /\ \E w \in issued : origin[w.jti].via = "authenticate"

\* C2: change_password sets a password only in a request that presents a
\* valid allow-set-password token, only for the token's identity, only a
\* password check_new_password accepted, and it mints no token.
C2_ChangePasswordGate ==
    [][last'.route = "change_password" =>
        /\ issued' = issued
        /\ last'.minted = <<>>
        /\ \A u \in Users :
              passwd'[u] # passwd[u] => last'.setpw = <<<<u>>, passwd'[u]>>
        /\ last'.setpw # <<>> =>
              /\ Verifies(last'.auth, now)
              /\ SubNamespace(last'.auth.sub) = NS_SET_PASSWORD
              /\ last'.setpw[1] = SubIdentity(last'.auth.sub)
              /\ Len(last'.setpw[1]) = 1
              /\ CheckNewPassword(last'.setpw[1][1], last'.setpw[2])]_vars

C2_PasswordChanged ==
    /\ last.route = "change_password"
    /\ last.status = "204"
    /\ last.setpw = <<<<"foo">>, "fido5">>
    /\ passwd["foo"] = "fido5"

\* C3, as stated: a valid token of a namespace the route does not accept is
\* answered 403 Forbidden and the body does not run.
C3_AlwaysForbidden ==
    WrongNamespace => last.status = "403-forbidden" /\ ~last.ran

\* C3, amended: a valid token of a namespace the route does not accept is
\* answered 403 Forbidden, or 429 where the rate limiter in front of
\* require_jwt turned the request away first; never 401, and the body does
\* not run.
C3_ForbiddenUnlessLimited ==
    WrongNamespace =>
        /\ last.status \in {"403-forbidden", "429"}
        /\ last.status = "429" => last.route \in LimitedRoutes
        /\ ~last.passed
        /\ ~last.ran
        /\ last.minted = <<>>
        /\ last.setpw = <<>>

C3_VerifyTokenOnPassword ==
    /\ WrongNamespace
    /\ last.route = "change_password"
    /\ SubNamespace(last.auth.sub) = NS_VERIFY_NONCE
    /\ last.status = "403-forbidden"

\* C4: on a gated route a request with no token, an unparseable token or an
\* expired token is answered with the 401 challenge and the handler does not
\* run.
C4_UnauthorizedChallenge ==
    (/\ last.route \in GatedRoutes
     /\ last.status # "429"
     /\ \/ last.auth.kind \in {"none", "garbage"}
        \/ last.auth \in issued /\ now > last.auth.exp + JWT_LEEWAY)
        => last.status = "401-challenge" /\ ~last.ran

\* C5: what the claim puts in the accepting side of its "iff"
C5_Conditions ==
    /\ probe.w.sig = SECRET
    /\ RequiredClaims \subseteq probe.w.claims
    /\ probe.w.nbf - probe.leeway <= probe.at
    /\ probe.at <= probe.w.exp + probe.leeway

C6_NoRevocation ==
    (RightNamespace /\ last.status # "429") => last.passed

C6_ChangedTwice ==
    /\ last.route = "change_password"
    /\ last.status = "204"
    /\ "204" \in last.reused

\* C7: after /sms/verify succeeded for an identifier, no nonce is stored for
\* that identifier.
C7_NonceCleared ==
    (last.route = "verify_code" /\ last.status = "200") =>
        ~StoreHas(store, NonceName(SubIdentity(last.auth.sub)))

C10_AtMostOneAdmitted ==
    Cardinality({w \in DOMAIN pc : pc[w] = "admitted"}) <= 1


\* C11: after every call the rate-limit key carries a TTL that has not run
\* out; once the calls stop the key expires; and a call that finds the key
\* gone is a first call: it is admitted and leaves the counter at 1.
C11_CounterExpires ==
    /\ [](\A k \in LimitKeys :
            StoreHas(store, k) => store[k].exp # NoTTL /\ store[k].exp > now)
    /\ \A k \in LimitKeys : StoreHas(store, k) ~> ~StoreHas(store, k)
    /\ [][\A k \in LimitKeys :
            (~StoreHas(store, k) /\ StoreHas(store', k)) =>
                /\ store'[k].val = 1
                /\ last'.reached
                /\ last'.status # "429"]_vars

C11_FirstCallAgain ==
    /\ served >= 2
    /\ now >= 1
    /\ last.route = "authenticate"
    /\ last.reached
    /\ last.status # "429"
    /\ store[LastScope].val = 1


\* C12: check_nonce(identifier, candidate) is true exactly when candidate is
\* the nonce issued last for the identifier and that nonce has neither run
\* out nor been cleared.
C12_CheckNonceIff ==
    noncelog.ask # NoAsk =>
        (noncelog.ask.result <=>
            /\ noncelog.ask.identifier \in DOMAIN noncelog.issue
            /\ noncelog.issue[noncelog.ask.identifier].nonce = noncelog.ask.nonce
            /\ ~noncelog.issue[noncelog.ask.identifier].cleared
            /\ now < noncelog.issue[noncelog.ask.identifier].until)

C12_MatchesSecondIssue ==
    /\ noncelog.ask # NoAsk
    /\ noncelog.ask.result
    /\ noncelog.ask.nonce = "n2"
    /\ now >= 1
    /\ \E i \in DOMAIN noncelog.issue : noncelog.issue[i].cleared


\* the request just answered was an identify that returned 200; its form is
\* <<person, username, mobile, filterOK, sendOK, nonce>>
IdentifyAccepted == last.route = "identify" /\ last.status = "200"
\* what identify leaves behind: an allow-verify-nonce token whose identity is
\* 'username:mobile', and the nonce stored under that identifier
IdentifyEffect ==
    /\ Len(last.minted) = 1
    /\ SubNamespace(last.minted[1].sub) = NS_VERIFY_NONCE
    /\ SubIdentity(last.minted[1].sub) = <<last.form[2]>> \o Segments(last.form[3])
    /\ CheckNonce(store, <<last.form[2]>> \o Segments(last.form[3]), last.form[6])
IdentifyEligible ==
    /\ last.form[1] \in Persons
    /\ last.form[2] \in UsersOf(last.form[1])
    /\ CanUseSmsService(last.form[2])
    /\ last.form[4]
    /\ last.form[5]

\* C13 as stated: identify returns 200 with an allow-verify-nonce token only
\* if the person was found, the username is the person's, the submitted mobile
\* is one of get_mobile_numbers, can_use_sms_service allowed, the filter let
\* the number through and send_sms returned true; the nonce is then stored
\* under 'username:mobile' and that string is the token's identity.
C13_IdentifyOnlyIfListed ==
    IdentifyAccepted =>
        /\ IdentifyEligible
        /\ last.form[3] \in MobilesOf(last.form[1])
        /\ IdentifyEffect

\* C13 (amended): as above, where the submitted mobile need not be written
\* as get_mobile_numbers writes it: it parses, and parse_number gives for it
\* what it gives for one of get_mobile_numbers.
C13_IdentifyOnlyIfParsedListed ==
    IdentifyAccepted =>
        /\ IdentifyEligible
        /\ ParseNumber(last.form[3]) # None
        /\ ParseNumber(last.form[3]) \in {ParseNumber(x) : x \in MobilesOf(last.form[1])}
        /\ IdentifyEffect

C13_AcceptedWithSpace ==
    /\ IdentifyAccepted
    /\ last.form[3] = "+47 91000000"
    /\ StoreHas(store, NonceName(<<"foo", "+47 91000000">>))


\* C14: when verify_code runs for a valid allow-verify-nonce token for
\* 'username:mobile', a submitted nonce other than the stored one is answered
\* 401 invalid-nonce and no token is minted; the stored nonce is answered 200
\* with exactly one allow-set-password token whose identity is username.
C14_VerifyCodeAnswers ==
    (last.route = "verify_code" /\ last.ran) =>
        IF CheckNonce(store, SubIdentity(last.auth.sub), last.form[1])
        THEN /\ last.status = "200"
             /\ Len(last.minted) = 1
             /\ SubNamespace(last.minted[1].sub) = NS_SET_PASSWORD
             /\ SubIdentity(last.minted[1].sub) = <<Head(SubIdentity(last.auth.sub))>>
        ELSE /\ last.status = "401-invalid-nonce"
             /\ last.minted = <<>>


\* C15: POST /renew with a valid token of any namespace answers 200 with a
\* token of the same jti, namespace, identity, issuer and iat, whose nbf and
\* exp are now plus DEFAULT_NBF and now plus DEFAULT_EXP; and the tokens that
\* share a jti, which is all a chain of renewals can produce from a token,
\* share its subject.
C15_RenewKeepsSubject ==
    /\ (last.route = "renew_session_jwt" /\ Valid) =>
          /\ last.status = "200"
          /\ Len(last.minted) = 1
          /\ last.minted[1].jti = last.auth.jti
          /\ last.minted[1].sub = last.auth.sub
          /\ SubNamespace(last.minted[1].sub) = SubNamespace(last.auth.sub)
          /\ SubIdentity(last.minted[1].sub) = SubIdentity(last.auth.sub)
          /\ last.minted[1].iss = last.auth.iss
          /\ last.minted[1].iat = last.auth.iat
          /\ last.minted[1].nbf = now + DEFAULT_NBF
          /\ last.minted[1].exp = now + DEFAULT_EXP
          /\ last.minted[1] \in issued
    /\ \A w1, w2 \in issued : w1.jti = w2.jti => w1.sub = w2.sub

C15_RenewedTwice ==
    /\ last.route = "renew_session_jwt"
    /\ Valid
    /\ last.status = "200"
    /\ last.auth.nbf > last.auth.iat
    /\ last.minted[1].nbf > last.auth.nbf
    /\ SubNamespace(last.auth.sub) = NS_VERIFY_NONCE


\* the copy has the token's jti, and each of its times is less than a
\* second away from the token's
CycleKeepsIdAndTimes ==
    /\ cycle.ok
    /\ cycle.copy.jti = cycle.token.jti
    /\ \A claim \in {"iat", "nbf", "exp"} :
          LET diff == (MaxFrac + 1) * (cycle.token[claim] - cycle.copy[claim])
                      + cycle.token.frac - cycle.copy.frac
          IN  -(MaxFrac + 1) < diff /\ diff < MaxFrac + 1
\* a string that is not empty and has no colon in it
Plain(s) == Len(s) = 1 /\ s # EmptyStr

\* C16 as stated: for every namespace, identity and issuer the decoded copy
\* of a fresh token has the token's jti, namespace, identity and issuer, and
\* iat, nbf and exp within a second of the token's.
C16_CycleKeepsEverything ==
    cycle.done =>
        /\ CycleKeepsIdAndTimes
        /\ cycle.copy.namespace = cycle.token.namespace
        /\ cycle.copy.identity = cycle.token.identity
        /\ cycle.copy.iss = cycle.token.iss

\* C16 (amended): the copy always has the token's jti, its subject string
\* 'namespace:identity' and times within a second.  The namespace comes back
\* if it is None or a non-empty string without a colon, and then the identity
\* comes back if it is None or not empty; the issuer comes back if it is None
\* or not empty.  An empty namespace, identity or issuer comes back as None,
\* and a namespace with a colon comes back cut at its first colon.
C16_CycleKeepsPlain ==
    cycle.done =>
        /\ CycleKeepsIdAndTimes
        /\ Sub(cycle.copy.namespace, cycle.copy.identity)
              = Sub(cycle.token.namespace, cycle.token.identity)
        /\ cycle.copy.namespace =
              IF cycle.token.namespace \in {None, EmptyStr} THEN None
              ELSE <<Head(cycle.token.namespace)>>
        /\ (Plain(cycle.token.namespace) \/ cycle.token.namespace = None) =>
              cycle.copy.identity = OrNone(cycle.token.identity)
        /\ cycle.copy.iss = OrNone(cycle.token.iss)

C16_ColonInIdentity ==
    /\ cycle.done
    /\ cycle.token.identity = <<"foo", "+4791000000">>
    /\ cycle.copy.identity = cycle.token.identity
    /\ cycle.token.iss = <<"some_issuer">>
    /\ cycle.token.frac > 0


\* the four checks of can_use_sms_service, read off the answers of the API
SmsInactive == ~idm.active
SmsQuarantined == \E q \in idm.quarantines : q \notin AcceptedQuarantines
SmsReservedGroup == \E group \in idm.groups : group.name \in ReservedGroups
SmsSelfReserved == [trait |-> "pasw_reserved", number |-> 1] \in idm.traits

\* C17: can_use_sms_service raises the reason of the first check that fails,
\* in the order inactive account, unaccepted quarantine, reserved group
\* (direct or indirect membership), self-reservation, whatever the later
\* checks would say; it returns true only when all four pass.
C17_FirstFailingCheck ==
    idm.op = "can_use_sms_service" =>
        /\ SmsInactive => idm.result = "inactive-account"
        /\ (~SmsInactive /\ SmsQuarantined) => idm.result = "quarantined"
        /\ (~SmsInactive /\ ~SmsQuarantined /\ SmsReservedGroup) =>
              idm.result = "reserved-by-group-membership"
        /\ (~SmsInactive /\ ~SmsQuarantined /\ ~SmsReservedGroup /\ SmsSelfReserved) =>
              idm.result = "reserved-by-self"
        /\ idm.result = "true" <=>
              ~(SmsInactive \/ SmsQuarantined \/ SmsReservedGroup \/ SmsSelfReserved)

C17_QuarantinedAndReserved ==
    /\ idm.op = "can_use_sms_service"
    /\ idm.result = "quarantined"
    /\ SmsReservedGroup
    /\ SmsSelfReserved
    /\ \A group \in idm.groups : group.name \in ReservedGroups => ~group.direct


\* get_mobile_numbers was called with a priority list
WithPriorities == idm.op = "get_mobile_numbers" /\ idm.priorities # <<>>
\* the person has an affiliation from the system that is not deleted, or was
\* deleted less than the grace period ago
Affiliated(system) ==
    \E aff \in idm.affiliations :
        /\ aff.source_system = system
        /\ (aff.deleted_date = NoDate \/ aff.deleted_date < AFF_GRACE_DAYS)
\* the contact's type is configured and the contact is not too recent
ContactCounts(item) ==
    \E i \in 1 .. Len(ContactTypes) :
        /\ ContactTypes[i].system = item.source_system
        /\ ContactTypes[i].ctype = item.type
        /\ \/ ContactTypes[i].delay = 0
           \/ idm.fresh
           \/ item.last_modified = NoDate
           \/ item.last_modified > ContactTypes[i].delay
\* the values of the system's contacts that count, in the order of the contacts
ValidContactsOf(system) ==
    LET kept == SelectSeq(idm.contacts,
                    LAMBDA item : item.source_system = system /\ ContactCounts(item))
    IN  [i \in 1 .. Len(kept) |-> kept[i].value]
\* the system is listed, the person is affiliated to it and it has a contact
Qualifies(i) ==
    /\ Affiliated(idm.priorities[i])
    /\ ValidContactsOf(idm.priorities[i]) # <<>>

\* C18: with a priority list, get_mobile_numbers passes over a listed system
\* the person is affiliated to but which has no valid contact, and answers
\* with the valid contacts of the first listed system that has both a valid
\* affiliation and a valid contact.
C18_SkipsSystemWithoutContact ==
    WithPriorities =>
        \A i \in 1 .. Len(idm.priorities) :
            (Qualifies(i) /\ \A j \in 1 .. i - 1 : ~Qualifies(j)) =>
                /\ ~idm.result.none
                /\ idm.result.numbers = ValidContactsOf(idm.priorities[i])


\* C19: with a priority list, the numbers returned, if any, are the valid
\* contacts of one source system, the earliest listed one that qualifies, and
\* of no other: with valid affiliations from A and B and the contacts
\* {A: num1, B: num2}, priorities [B, A] give exactly [num2] and [A, B] give
\* exactly [num1].
C19_OneSourceSystem ==
    WithPriorities =>
        /\ idm.result.numbers # <<>> =>
              \E i \in 1 .. Len(idm.priorities) :
                  /\ Qualifies(i)
                  /\ \A j \in 1 .. i - 1 : ~Qualifies(j)
                  /\ idm.result.numbers = ValidContactsOf(idm.priorities[i])
        /\ (/\ Affiliated("A") /\ Affiliated("B")
            /\ ValidContactsOf("A") = <<"num1">> /\ ValidContactsOf("B") = <<"num2">>) =>
              idm.result.numbers = IF idm.priorities = <<"B", "A">> THEN <<"num2">>
                                   ELSE <<"num1">>

C19_SecondSystemFirst ==
    /\ WithPriorities
    /\ idm.priorities = <<"B", "A">>
    /\ idm.result.numbers = <<"num2">>
    /\ Affiliated("A")
    /\ ValidContactsOf("A") = <<"num1">>

\* C20: with no priority list, get_mobile_numbers returns exactly the values
\* of the contacts that are valid and whose source system has an affiliation
\* that is not deleted or was deleted within the grace period; contacts of a
\* system without such an affiliation and contacts of a type that is not
\* configured are left out.
C20_AllAffiliatedContacts ==
    (idm.op = "get_mobile_numbers" /\ idm.priorities = <<>>) =>
        LET kept == SelectSeq(idm.contacts, LAMBDA item :
                        ContactCounts(item) /\ Affiliated(item.source_system))
        IN  /\ ~idm.result.none
            /\ idm.result.numbers = [i \in 1 .. Len(kept) |-> kept[i].value]
            /\ \A i \in 1 .. Len(idm.contacts) :
                  (\/ ~Affiliated(idm.contacts[i].source_system)
                   \/ \A k \in 1 .. Len(ContactTypes) :
                         \/ ContactTypes[k].system # idm.contacts[i].source_system
                         \/ ContactTypes[k].ctype # idm.contacts[i].type) =>
                      \A n \in 1 .. Len(idm.result.numbers) :
                          idm.result.numbers[n] # idm.contacts[i].value

C20_GraceAndExclusions ==
    /\ idm.op = "get_mobile_numbers"
    /\ idm.priorities = <<>>
    /\ Len(idm.contacts) = 3
    /\ idm.affiliations = {[source_system |-> "A", deleted_date |-> 365],
                           [source_system |-> "B", deleted_date |-> 3]}
    /\ idm.result.numbers = <<"num2">>


\* the delay configured for the contact's (source system, type) pair, if any
ConfiguredFor(item) ==
    {x \in {ContactTypes[i] : i \in 1 .. Len(ContactTypes)} :
        x.system = item.source_system /\ x.ctype = item.type}

Reserved(person) ==
    person \in Persons /\ UsersOf(person) # {} /\ ~CanShowUsernames(person)

\* C22: /list-usernames answers for a person reserved from publication what it
\* answers for a person not on record (400 not-found, no usernames in the
\* answer); the usernames go by SMS to the person's preferred number when
\* there is one, by no SMS otherwise; whether that SMS fails or not, the
\* answer is the same
C22_ReservedLooksUnknown ==
    (last.route = "list_for_person" /\ last.form # <<>>) =>
        LET person    == last.form[1]
            recipient == PreferredMobileNumber(person)
        IN  /\ person \notin Persons =>
                  /\ last.status = "400-not-found"
                  /\ last.reply = {}
                  /\ last.sms = <<>>
            /\ Reserved(person) =>
                  /\ last.status = "400-not-found"
                  /\ last.reply = {}
                  /\ recipient = None => last.sms = <<>>
                  /\ recipient # None =>
                        last.sms = <<[to |-> recipient[1],
                                      usernames |-> UsersOf(person)]>>

\* a reserved person with a number on record was asked about, and the SMS failed
C22_ReservedSmsFailed ==
    /\ last.route = "list_for_person"
    /\ last.form = <<"2", FALSE>>
    /\ last.status = "400-not-found"
    /\ last.sms = <<[to |-> "+4720000002", usernames |-> {"baz"}]>>


\* the submitted (person, username, mobile) triple misses: the person is not
\* on record, the username is not the person's, or the mobile is not among
\* the person's numbers
IdentifyMiss(person, username, mobile) ==
    \/ person \notin Persons
    \/ username \notin UsersOf(person)
    \/ ParseNumber(mobile) \notin {ParseNumber(x) : x \in MobilesOf(person)}

\* C23: /sms answers every lookup miss (unknown person, username not the
\* person's, mobile not among the person's numbers) with the same 400
\* not-found, so that for a mobile that matches nothing the answer is the same
\* whether or not the person and the username are on record
C23_EveryMissNotFound ==
    (last.route = "identify" /\ last.form # <<>>
        /\ IdentifyMiss(last.form[1], last.form[2], last.form[3]))
    => last.status = "400-not-found"


\* C24: a handler that runs while the identity backend fails (an exception,
\* a timeout or an HTTP error status out of _do_get / _do_post) answers
\* ServiceUnavailable; the failure does not come out as an unhandled error
C24_BackendFailureUnavailable ==
    last.down => last.status = "403-service-unavailable"


\* the well-formed /authenticate request just answered named an account that
\* may authenticate, with its current password
AuthenticateCorrect(l, pw) ==
    /\ l.route = "authenticate"
    /\ l.form # <<>>
    /\ CanAuthenticate(l.form[1])
    /\ l.form[1] \in Users
    /\ pw[l.form[1]] = l.form[2]
\* the answer is 200 with an allow-set-password token for the username
AuthenticateAccepted(l) ==
    /\ l.status = "200"
    /\ Len(l.minted) = 1
    /\ SubNamespace(l.minted[1].sub) = NS_SET_PASSWORD
    /\ SubIdentity(l.minted[1].sub) = <<l.form[1]>>

C27_BadTokenForbidden ==
    (/\ last.route = "change_password"
     /\ \/ last.auth = Garbage
        \/ last.auth \in Forged
        \/ last.auth \in issued /\ now > last.auth.exp + JWT_LEEWAY)
        => /\ last.status = "403-forbidden"
           /\ ~last.passed
           /\ ~last.ran


\* C25: when /password answers 204 for the token's username and the new
\* password, the backend has that password for the username from then on:
\* verify_current_password accepts the new password and no other
C25_AnsweredMeansChanged ==
    (last.route = "change_password" /\ last.status = "204") =>
        /\ Len(last.setpw[1]) = 1
        /\ last.setpw[1][1] \in Users
        /\ passwd[last.setpw[1][1]] = last.setpw[2]


\* C28: an account that passes the four checks and carries the trait
\* sysadm_account is refused by can_use_sms_service with the reason
\* reserved-sysadm-account
C28_SysadmAccountReserved ==
    (/\ idm.op = "can_use_sms_service"
     /\ ~SmsInactive /\ ~SmsQuarantined /\ ~SmsReservedGroup /\ ~SmsSelfReserved
     /\ \E trait \in idm.traits : trait.trait = "sysadm_account")
        => idm.result = "reserved-sysadm-account"


\* the number of the call is one the filter refuses: it does not parse, is no
\* valid number, or is kept out by a whitelist in use
DispatchRejected ==
    \/ dispatch.raw_number = "x"
    \/ ~IsValidNumber(dispatch.raw_number)
    \/ dispatch.whitelist_regions /\ CountryCode(dispatch.raw_number) # 47
    \/ dispatch.whitelist_numbers /\ dispatch.raw_number # "+4791000000"
EventNames == [i \in 1 .. Len(dispatch.events) |-> dispatch.events[i].name]

\* C29: a dispatch call sends sms.pre once, ahead of every other event, and
\* ends with exactly one of sms.filtered, sms.error and sms.sent after it; it
\* returns true iff it sent sms.sent; the transport is not invoked for a
\* number the filter refuses; a transport that raises gives sms.error and the
\* result false
C29_DispatchEvents ==
    /\ dispatch.pc \in {"filter", "send"} =>
          /\ EventNames = <<"sms.pre">>
          /\ dispatch.result = "none"
    /\ dispatch.pc = "returned" =>
          /\ EventNames \in {<<"sms.pre", "sms.filtered">>, <<"sms.pre", "sms.error">>,
                             <<"sms.pre", "sms.sent">>}
          /\ dispatch.result \in {"true", "false"}
          /\ dispatch.result = "true" <=> EventNames[2] = "sms.sent"
          /\ EventNames[2] = "sms.filtered" <=> DispatchRejected
          /\ ~DispatchRejected =>
                /\ Len(dispatch.sent) = 1
                /\ EventNames[2] = "sms.error" <=> ~dispatch.transportOK
    /\ DispatchRejected => dispatch.sent = <<>>
    /\ dispatch.pc # "returned" => dispatch.sent = <<>>

\* a call whose number passes the filters ended with a transport that raised
C29_TransportRaised ==
    /\ dispatch.pc = "returned"
    /\ dispatch.raw_number = "+4791000000"
    /\ dispatch.whitelist_regions /\ dispatch.whitelist_numbers
    /\ ~dispatch.transportOK
    /\ EventNames = <<"sms.pre", "sms.error">>
    /\ dispatch.result = "false"
    /\ served = 2


\* C30: whatever the configured expiration and not-before offsets, a token
\* made by JWTAuthToken.new or brought up to date by renew has nbf <= exp
C30_NbfBeforeExp ==
    config.token # <<>> => config.token[1].nbf <= config.token[1].exp


\* a field without a colon: None, the empty string or one segment
NoColon(s) == Len(s) <= 1

\* C31 as stated: whenever the namespace has no colon, the subject
\* 'namespace:identity' parsed back at its first colon gives the namespace and
\* the identity as they were, identities with colons included
C31_SubjectRoundTrip ==
    (cycle.done /\ NoColon(cycle.token.namespace)) =>
        /\ cycle.copy.namespace = cycle.token.namespace
        /\ cycle.copy.identity = cycle.token.identity

\* C31 (amended): whenever the namespace has no colon, a namespace and an
\* identity that are not the empty string come back as they were, identities
\* with colons included; a namespace or identity that is absent or the empty
\* string is written as the empty string and comes back absent
C31_SubjectRoundTripNotEmpty ==
    (cycle.done /\ NoColon(cycle.token.namespace)) =>
        /\ cycle.copy.namespace =
              IF cycle.token.namespace = EmptyStr THEN None ELSE cycle.token.namespace
        /\ cycle.copy.identity =
              IF cycle.token.identity = EmptyStr THEN None ELSE cycle.token.identity
        /\ Head(Sub(cycle.token.namespace, cycle.token.identity)) =
              IF cycle.token.namespace \in {None, EmptyStr} THEN ""
              ELSE cycle.token.namespace[1]

\* no namespace, and an identity 'username:mobile'
C31_AbsentNamespaceColonIdentity ==
    /\ cycle.done
    /\ cycle.token.namespace = None
    /\ cycle.token.identity = <<"foo", "+4791000000">>
    /\ cycle.copy.namespace = None
    /\ cycle.copy.identity = <<"foo", "+4791000000">>


\* C32: within a request each fact is fetched from the backend at most once
\* per key, and what was fetched stays what every later read of the request
\* returns, whatever the backend holds by then; a new request begins with
\* nothing cached
C32_FetchedOncePerRequest ==
    [][/\ \A key \in CacheKeys : cache'.fetched[key] <= 1
       /\ cache'.request = cache.request =>
             \A key \in DOMAIN cache.entries :
                /\ key \in DOMAIN cache'.entries
                /\ cache'.entries[key] = cache.entries[key]
                /\ cache'.fetched[key] = cache.fetched[key]
       /\ cache'.read # <<>> =>
             /\ cache'.read[1] \in DOMAIN cache'.entries
             /\ cache'.read[2] = cache'.entries[cache'.read[1]]
       /\ cache'.request # cache.request =>
             /\ DOMAIN cache'.entries = {}
             /\ \A key \in CacheKeys : cache'.fetched[key] = 0]_vars

\* in the second request the traits are read again after they have changed in
\* the backend
C32_SecondReadAfterChange ==
    /\ cache.request = 2
    /\ cache.read = <<<<"traits", "foo">>, 0>>
    /\ cache.backend[<<"traits", "foo">>] = 1
    /\ cache.fetched[<<"traits", "foo">>] = 1


\* C33: an account is fresh iff one of its traits new_student or sms_welcome
\* has a date inside the freshness window, in whatever order the backend
\* gives the traits
C33_FreshIffSomeRecentTrait ==
    idm.op = "account_is_fresh" =>
        (idm.result <=>
            \E i \in 1 .. Len(idm.traits) :
                /\ idm.traits[i].trait \in {"new_student", "sms_welcome"}
                /\ idm.traits[i].date # NoDate
                /\ idm.traits[i].date < FRESH_DAYS)


\* C34: on /sms/verify the rate limiter counts the attempt before the token
\* is verified: a request whose token does not verify (unparseable, signed
\* with another key, expired) leaves the client's rate-limit counter one
\* higher, with a new time to live
C34_LimiterCountsBadToken ==
    [][(/\ last'.route = "verify_code"
        /\ \/ last'.auth = Garbage
           \/ last'.auth \in Forged
           \/ last'.auth \in issued /\ now > last'.auth.exp + JWT_LEEWAY)
        => /\ StoreHas(store', RateLimitScope("verify_code", last'.client))
           /\ store' # store]_vars


\* the request just answered was a verify_code that returned 200
VerifyAccepted == last.route = "verify_code" /\ last.status = "200"

\* C35 as stated: an allow-verify-nonce token is redeemed only with the code
\* of the identify request that minted it
C35_RedeemedWithOwnCode ==
    (VerifyAccepted /\ last.auth \in issued) =>
        origin[last.auth.jti].nonce = last.form[1]

\* C35 (amended): an allow-verify-nonce token is redeemed only with the code
\* stored for its 'username:mobile' at that moment, which is the code of the
\* latest identify that saved one for the identifier; each accepted identify
\* leaves its own code stored in place of any earlier one
C35_RedeemedWithStoredCode ==
    /\ IdentifyAccepted =>
          LET name == NonceName(<<last.form[2]>> \o Segments(last.form[3]))
          IN  StoreHas(store, name) /\ StoreGet(store, name) = last.form[6]
    /\ VerifyAccepted =>
          LET name == NonceName(SubIdentity(last.auth.sub))
          IN  /\ last.form[1] # ""
              /\ StoreHas(store, name)
              /\ StoreGet(store, name) = last.form[1]

\* the first token is redeemed with the code of the second identify
C35_FirstTokenSecondCode ==
    /\ VerifyAccepted
    /\ last.auth \in issued
    /\ last.auth.jti = 1
    /\ origin[1].nonce = "n1"
    /\ last.form = <<"n2">>
    /\ origin[2].via = "identify" /\ origin[2].nonce = "n2"


\* C36: an identify request answered with an error (not-found, invalid mobile
\* number, service-unavailable) leaves every stored nonce as it was before
\* the request
C36_ErrorLeavesNonces ==
    [][(/\ last'.route = "identify"
        /\ last'.status \in {"400-not-found", "400-invalid-mobile",
                             "403-service-unavailable"})
       => NonceStore(store') = NonceStore(store)]_vars


\* the workers whose /sms request was answered 200
Succeeded == {w \in Workers : pc[w] = "200"}
\* no /sms request is between its first and its last step
AllCompleted == \A w \in Workers : pc[w] \notin {"save_nonce", "send_sms"}
FooIdentifier == <<"foo">> \o Segments("+4791000000")

\* C37: when two /sms requests for the same username:mobile have both
\* succeeded and none is under way, the stored nonce is the code of the SMS
\* dispatched last
C37_StoredIsLastDispatched ==
    (/\ AllCompleted
     /\ Cardinality(Succeeded) = 2
     /\ \A w \in Workers : pc[w] # "403-service-unavailable")
    => /\ StoreHas(store, NonceName(FooIdentifier))
       /\ StoreGet(store, NonceName(FooIdentifier))
              = dispatch.sent[Len(dispatch.sent)][2]


\* C38: get_mobile_numbers returns a list, empty or not, for every person and
\* every configuration, so that identify can go through it and answer
\* not-found instead of failing
C38_AlwaysAList ==
    idm.op = "get_mobile_numbers" =>
        /\ ~idm.result.none
        /\ IterateNumbers(idm.result) = "list"


\* C39: renewal puts no cap on how long a token lives: POST /renew with a
\* token that verifies answers 200 however long ago the token was first
\* issued, with a token that verifies now, runs DEFAULT_EXP from now and has
\* the jti, namespace, identity and iat of the one presented; so every token
\* of a chain of renewals has the jti, subject and iat of the first
C39_NoLifetimeCap ==
    /\ (last.route = "renew_session_jwt" /\ Valid) =>
          /\ last.status = "200"
          /\ Len(last.minted) = 1
          /\ JwtDecodeOK(last.minted[1], SECRET, JWT_LEEWAY, now, TRUE)
          /\ last.minted[1].exp = now + DEFAULT_EXP
          /\ last.minted[1].exp + JWT_LEEWAY >= last.auth.exp + JWT_LEEWAY
          /\ <<last.minted[1].jti, last.minted[1].sub, last.minted[1].iat>>
                 = <<last.auth.jti, last.auth.sub, last.auth.iat>>
    /\ \A w1, w2 \in issued :
          w1.jti = w2.jti => (w1.iat = w2.iat /\ w1.sub = w2.sub)

\* a token that was renewed before is renewed again after the lifetime it
\* was first issued with has run out
C39_RenewedPastFirstLifetime ==
    /\ last.route = "renew_session_jwt"
    /\ Valid
    /\ last.status = "200"
    /\ last.auth.nbf > last.auth.iat
    /\ now > last.auth.iat + DEFAULT_EXP + JWT_LEEWAY
    /\ last.minted[1].exp > last.auth.iat + DEFAULT_EXP + JWT_LEEWAY


\* the form of the /sms request just answered names a person that exists, a
\* username of that person and one of the person's numbers
ChecksPassed ==
    LET parsed == ParseNumber(last.form[3])
    IN  /\ last.form[1] \in Persons
        /\ last.form[2] \in UsersOf(last.form[1])
        /\ parsed # None
        /\ parsed \in {ParseNumber(x) : x \in MobilesOf(last.form[1])}

\* C40: identify answers service-unavailable only when the person exists, the
\* username is the person's and the mobile is one of the person's numbers; a
\* request that fails one of these checks gets not-found or invalid mobile
\* number, whether or not the account may use the service, and
\* can_use_sms_service is asked exactly for the requests that pass them
C40_DenialAfterChecks ==
    (last.route = "identify" /\ last.form # <<>>) =>
        /\ last.asked <=> ChecksPassed
        /\ last.status = "403-service-unavailable" => ChecksPassed
        /\ ~ChecksPassed =>
              last.status \in {"400-not-found", "400-invalid-mobile"}
        /\ (ChecksPassed /\ ~CanUseSmsService(last.form[2])) =>
              last.status = "403-service-unavailable"

\* an account that may not use the service passes the checks, with its own
\* person and number, and is denied
C40_DeniedWithOwnNumber ==
    /\ last.route = "identify"
    /\ last.form # <<>>
    /\ last.form[2] = "bar"
    /\ ChecksPassed
    /\ last.asked
    /\ last.status = "403-service-unavailable"

====
